---- MODULE Spec2Model ----
(***************************************************************************)
(* Model of the tool layer of the Cesto d'Amore MCP server                 *)
(* (src/mcp_server.py): the delivery-availability engine                   *)
(* validate_delivery_availability with its business calendar, and the      *)
(* freight calculator calculate_freight.                                   *)
(*                                                                         *)
(* Values.  A date is its proleptic Gregorian ordinal (datetime.date       *)
(* .toordinal()).  A time of day is [sec, us]: whole seconds since         *)
(* midnight and the microsecond field.  A datetime is [date, time].        *)
(* A date string is [kind, y, m, d]: kind "ymd" stands for a text made of  *)
(* a year, a month and a day field joined by "-", kind "text" for any      *)
(* other text.  A time string is [kind, h, m]: "none" is the Python None, *)
(* "empty" the empty text, "hm" two number fields joined by ":", "text"    *)
(* any other text.  A text made of characters is a sequence of             *)
(* one-character strings.                                                  *)
(***************************************************************************)
EXTENDS Integers, Sequences, FiniteSets, TLC

VARIABLES clock, Holiday, dbUp, call, result, holiday_lookups,
          db_pool, CustomerMemory, procs, applied,
          AIAgentSession, id_type, outbound, EVOLUTION_API_CONFIG, answered, http,
          scan, tasks, pools

vars == <<clock, Holiday, dbUp, call, result, holiday_lookups,
          db_pool, CustomerMemory, procs, applied,
          AIAgentSession, id_type, outbound, EVOLUTION_API_CONFIG, answered, http,
          scan, tasks, pools>>

\* the scan for the next available day, the invocations that use the pool,
\* and the pools created
taskVars == <<scan, tasks, pools>>

\* the CustomerMemory table and the invocations of the tool that writes it
memoryVars == <<CustomerMemory, procs, applied>>

\* the AIAgentSession table, the type of its id column, the requests the
\* invocation in progress sent to the messaging service, and whether the
\* environment configures that service
supportVars == <<AIAgentSession, id_type, outbound, EVOLUTION_API_CONFIG>>

storeVars == <<memoryVars, supportVars>>

\* http is the request POST /call is serving and, once served, its response.
\* answered is what the agent noted of an earlier answer of
\* validate_delivery_availability: the date asked and whether the answer was
\* the holiday closure.  It is written by NoteAnswer only and read by no tool.

(***************************************************************************)
(* datetime.time / datetime.date arithmetic used by the server             *)
(***************************************************************************)
\* datetime.time(h, m, s, us)
Time(h, m, s, us) == [sec |-> h * 3600 + m * 60 + s, us |-> us]

\* time(h, m), the form used by BUSINESS_HOURS
T(h, m) == Time(h, m, 0, 0)

\* Python's ordering of datetime.time values
TimeLT(a, b) == a.sec < b.sec \/ (a.sec = b.sec /\ a.us < b.us)

TimeLE(a, b) == a = b \/ TimeLT(a, b)

\* max(s, min_ready_time) on times
TimeMax(a, b) == IF TimeLT(a, b) THEN b ELSE a

\* t.strftime('%H:%M'): the hour and minute fields, seconds dropped
FormatHM(t) == [kind |-> "hm", h |-> t.sec \div 3600, m |-> (t.sec % 3600) \div 60]

\* t.replace(microsecond=0)
ReplaceMicrosecond0(t) == [t EXCEPT !.us = 0]

\* dt + timedelta(minutes=n), carrying into the date
AddMinutes(dt, n) ==
    LET total == dt.time.sec + n * 60
    IN  [date |-> dt.date + (total \div 86400),
         time |-> [sec |-> total % 86400, us |-> dt.time.us]]

\* dt + timedelta(hours=n)
AddHours(dt, n) == AddMinutes(dt, n * 60)

\* datetime.combine(date, time)
Combine(d, t) == [date |-> d, time |-> t]

\* Python's ordering of datetime values
DateTimeLE(a, b) == a.date < b.date \/ (a.date = b.date /\ TimeLE(a.time, b.time))

\* the minute field of a datetime
MinuteOf(dt) == (dt.time.sec % 3600) \div 60

\* dt.replace(minute=k)
ReplaceMinute(dt, k) ==
    [dt EXCEPT !.time.sec = (dt.time.sec \div 3600) * 3600 + k * 60 + (dt.time.sec % 60)]

IsLeap(y) == y % 4 = 0 /\ (y % 100 # 0 \/ y % 400 = 0)

DaysInMonth(y, m) ==
    IF m = 2 THEN (IF IsLeap(y) THEN 29 ELSE 28)
    ELSE IF m \in {4, 6, 9, 11} THEN 30 ELSE 31

RECURSIVE DaysBeforeMonth(_, _)
DaysBeforeMonth(y, m) ==
    IF m <= 1 THEN 0 ELSE DaysBeforeMonth(y, m - 1) + DaysInMonth(y, m - 1)

DaysBeforeYear(y) ==
    (y - 1) * 365 + ((y - 1) \div 4) - ((y - 1) \div 100) + ((y - 1) \div 400)

\* date(y, m, d).toordinal()
ToOrdinal(y, m, d) == DaysBeforeYear(y) + DaysBeforeMonth(y, m) + d

\* date.weekday(): 0 = Monday ... 6 = Sunday
Weekday(d) == (d + 6) % 7

\* date.fromordinal(n) as (year, month, day), the calendar walk of the
\* standard library that strftime renders
FromOrdinal(n) ==
    LET n0   == n - 1
        n400 == n0 \div 146097
        r400 == n0 % 146097
        n100 == r400 \div 36524
        r100 == r400 % 36524
        n4   == r100 \div 1461
        r4   == r100 % 1461
        n1   == r4 \div 365
        r1   == r4 % 365
        year == n400 * 400 + 1 + n100 * 100 + n4 * 4 + n1
        m0   == CHOOSE m \in 1..12 :
                    /\ DaysBeforeMonth(year, m) <= r1
                    /\ r1 < DaysBeforeMonth(year, m) + DaysInMonth(year, m)
    IN  IF n1 = 4 \/ n100 = 4
        THEN [y |-> year - 1, m |-> 12, d |-> 31]
        ELSE [y |-> year, m |-> m0, d |-> r1 - DaysBeforeMonth(year, m0) + 1]

\* d.strftime("%Y-%m-%d")
FormatDate(d) ==
    LET f == FromOrdinal(d)
    IN  [kind |-> "ymd", y |-> f.y, m |-> f.m, d |-> f.d]

\* d.strftime('%d/%m')
FormatDayMonth(d) ==
    LET f == FromOrdinal(d)
    IN  [d |-> f.d, m |-> f.m]

\* a parse that takes any day number 1..31 whatever the month is
DateParses_AnyDayOfMonth(date_str) ==
    /\ date_str.kind = "ymd"
    /\ date_str.y \in 1..9999
    /\ date_str.m \in 1..12
    /\ date_str.d \in 1..31

\* datetime.strptime(date_str, "%Y-%m-%d") succeeds
DateParses(date_str) ==
    /\ date_str.kind = "ymd"
    /\ date_str.y \in 1..9999
    /\ date_str.m \in 1..12
    /\ date_str.d \in 1..DaysInMonth(date_str.y, date_str.m)

\* datetime.strptime(date_str, "%Y-%m-%d").date()
ParseDate(date_str) == ToOrdinal(date_str.y, date_str.m, date_str.d)

\* datetime.strptime(time_str, "%H:%M") succeeds
TimeParses(time_str) ==
    /\ time_str.kind = "hm"
    /\ time_str.h \in 0..23
    /\ time_str.m \in 0..59

\* datetime.strptime(time_str, "%H:%M").time()
ParseTime(time_str) == T(time_str.h, time_str.m)

(***************************************************************************)
(* Business calendar                                                       *)
(***************************************************************************)
\* BUSINESS_HOURS, indexed by date.weekday() (0 = "monday" ... 6 = "sunday")
BUSINESS_HOURS ==
    [d \in 0..6 |->
        IF d \in 0..4 THEN << <<T(7, 30), T(12, 0)>>, <<T(14, 0), T(17, 0)>> >>
        ELSE IF d = 5 THEN << <<T(8, 0), T(11, 0)>> >>
        ELSE << >>]

\* day_names[date.weekday()]
day_names ==
    [d \in 0..6 |->
        <<"segunda-feira", "terça-feira", "quarta-feira", "quinta-feira",
          "sexta-feira", "sábado", "domingo">>[d + 1]]

\* the holiday query with the last day of a closure left out (end_date compared
\* with < instead of <=)
HolidayMatches_ExclusiveEnd(table, check_date) ==
    {r \in table : r.is_active /\ check_date >= r.start_date /\ check_date < r.end_date}

\* the holiday query answering from rows whatever their is_active is, as an
\* answer kept from before a closure was switched off would
HolidayMatches_IgnoresActive(table, check_date) ==
    {r \in table : check_date >= r.start_date /\ check_date <= r.end_date}

\* the rows the query of is_holiday matches for check_date:
\* is_active = true AND check_date >= start_date AND check_date <= end_date
HolidayMatches(table, check_date) ==
    {r \in table : r.is_active /\ check_date >= r.start_date /\ check_date <= r.end_date}

\* is_holiday(check_date): truthy iff the query returns a row (LIMIT 1)
is_holiday(table, check_date) == HolidayMatches(table, check_date) # {}

\* get_next_available(current_date): the scan from candidate next_d on;
\* scanned counts the holiday queries issued so far
RECURSIVE ScanNextAvailable(_, _, _)
ScanNextAvailable(table, next_d, scanned) ==
    LET d_num == Weekday(next_d)
        hours == BUSINESS_HOURS[d_num]
        holiday_check == is_holiday(table, next_d)
    IN  IF hours # << >> /\ ~holiday_check
        THEN [date |-> next_d, day_name |-> day_names[d_num], hours |-> hours,
              scanned |-> scanned + 1]
        ELSE ScanNextAvailable(table, next_d + 1, scanned + 1)

\* the scan with the holiday check of each candidate left out
get_next_available_WeekdayOnly(table, current_date) ==
    ScanNextAvailable({}, current_date + 1, 0)

\* get_next_available(current_date)
get_next_available(table, current_date) ==
    ScanNextAvailable(table, current_date + 1, 0)

\* ", ".join(f"{s.strftime('%H:%M')}-{e.strftime('%H:%M')}" for s, e in h_list)
format_hours(h_list) ==
    [i \in 1..Len(h_list) |-> <<FormatHM(h_list[i][1]), FormatHM(h_list[i][2])>>]

(***************************************************************************)
(* validate_delivery_availability                                          *)
(*                                                                         *)
(* A response is [kind, data, message, queries]: kind "structured" is the  *)
(* output of _format_structured_response, data its JSON object (a record  *)
(* holding exactly the keys the code writes) and message the values the   *)
(* humanized sentence embeds; kind "text" is a bare sentence.  queries is *)
(* the number of holiday queries the invocation issued.                   *)
(***************************************************************************)
\* the two bare sentences of the except clauses and the inner except clause
DateFormatError ==
    [kind |-> "text", message |-> [template |-> "Erro no formato da data"], queries |-> 0]

TimeFormatError(queries) ==
    [kind |-> "text", message |-> [template |-> "Formato de hora inválido"],
     queries |-> queries]

ValidateError(queries) ==
    [kind |-> "text", message |-> [template |-> "Erro ao validar"], queries |-> queries]

\* "Check if Sunday": the branch taken when day_num == 6
SundayResponse(date_str, date_obj, table) ==
    LET next == get_next_available(table, date_obj)
        hours_fmt == format_hours(next.hours)
    IN  [kind |-> "structured",
         data |-> [status |-> "unavailable", reason |-> "closed", date |-> date_str,
                   day |-> day_names[Weekday(date_obj)],
                   next_available_date |-> FormatDate(next.date),
                   next_available_day |-> next.day_name,
                   next_available_hours |-> hours_fmt],
         message |-> [template |-> "Aos domingos a gente descansa",
                      next_date |-> FormatDayMonth(next.date), hours |-> hours_fmt],
         queries |-> next.scanned]

\* "Check if date is a holiday": the branch taken when is_holiday returned a row
HolidayResponse(date_str, date_obj, table, holiday_info) ==
    LET next == get_next_available(table, date_obj)
        hours_fmt == format_hours(next.hours)
    IN  [kind |-> "structured",
         data |-> [status |-> "unavailable", reason |-> "holiday", date |-> date_str,
                   day |-> day_names[Weekday(date_obj)],
                   holiday_name |-> holiday_info.name,
                   next_available_date |-> FormatDate(next.date),
                   next_available_day |-> next.day_name,
                   next_available_hours |-> hours_fmt],
         message |-> [template |-> "estamos fechados para aproveitar com a família",
                      date |-> FormatDayMonth(date_obj),
                      holiday_name |-> holiday_info.name,
                      next_day_name |-> next.day_name,
                      next_date |-> FormatDayMonth(next.date), hours |-> hours_fmt],
         queries |-> 1 + next.scanned]

\* the branch taken when the weekday has no business hours
NoBusinessHoursResponse(date_str, date_obj, table) ==
    LET next == get_next_available(table, date_obj)
    IN  [kind |-> "structured",
         data |-> [status |-> "unavailable", reason |-> "no_business_hours",
                   date |-> date_str, day |-> day_names[Weekday(date_obj)]],
         message |-> [template |-> "Não abrimos aos",
                      day_name |-> day_names[Weekday(date_obj)],
                      next_day_name |-> next.day_name,
                      next_date |-> FormatDayMonth(next.date),
                      hours |-> format_hours(next.hours)],
         queries |-> 1 + next.scanned]

\* is_within_hours: any(start <= requested_time <= end for start, end in business_hours)
is_within_hours(requested_time, business_hours) ==
    \E i \in 1..Len(business_hours) :
        /\ TimeLE(business_hours[i][1], requested_time)
        /\ TimeLE(requested_time, business_hours[i][2])

\* is_interval with the index slip i for i + 1: the requested time is compared
\* with the start of the block before the gap
is_interval_SameBlock(requested_time, business_hours) ==
    /\ Len(business_hours) > 1
    /\ \E i \in 1..(Len(business_hours) - 1) :
           /\ TimeLT(business_hours[i][2], requested_time)
           /\ TimeLT(requested_time, business_hours[i][1])

\* is_interval: the requested time lies strictly between two consecutive blocks
is_interval(requested_time, business_hours) ==
    /\ Len(business_hours) > 1
    /\ \E i \in 1..(Len(business_hours) - 1) :
           /\ TimeLT(business_hours[i][2], requested_time)
           /\ TimeLT(requested_time, business_hours[i + 1][1])

\* the responses of the "if not is_within_hours" block
OutsideHoursResponse(date_obj, time_str, requested_time, business_hours, table) ==
    LET is_too_late == TimeLT(business_hours[Len(business_hours)][2], requested_time)
        next == get_next_available(table, date_obj)
        hours_fmt == format_hours(next.hours)
        current_day_hours == format_hours(business_hours)
    IN  IF is_too_late
        THEN [kind |-> "structured",
              data |-> [status |-> "unavailable", reason |-> "after_hours",
                        requested_time |-> time_str],
              message |-> [template |-> "já estamos fora do horário comercial",
                           time |-> time_str, next_day_name |-> next.day_name,
                           next_date |-> FormatDayMonth(next.date), hours |-> hours_fmt],
              queries |-> 1 + next.scanned]
        ELSE IF is_interval(requested_time, business_hours)
        THEN [kind |-> "structured",
              data |-> [status |-> "unavailable", reason |-> "interval",
                        requested_time |-> time_str],
              message |-> [template |-> "Agora estamos em horário de intervalo",
                           back_at |-> FormatHM(business_hours[2][1]),
                           current_day_hours |-> current_day_hours],
              queries |-> 1 + next.scanned]
        ELSE [kind |-> "structured",
              data |-> [status |-> "unavailable", reason |-> "outside_hours",
                        requested_time |-> time_str],
              message |-> [template |-> "Nesse horário não estamos operando",
                           day_name |-> day_names[Weekday(date_obj)],
                           current_day_hours |-> current_day_hours],
              queries |-> 1 + next.scanned]

\* min_ready_time of the branch with a time: the clock without microseconds plus
\* one hour, reduced to a time of day
MinReadyTimeRequested(date_obj, now_local) ==
    LET time_needed == ReplaceMicrosecond0(now_local.time)
    IN  AddHours(Combine(date_obj, time_needed), 1).time

\* the "if time_str:" branch, after the holiday lookup found the day open
TimeBranch(date_str, time_str, date_obj, now_local, business_hours, table) ==
    IF ~TimeParses(time_str) THEN TimeFormatError(1)
    ELSE
      LET requested_time == ParseTime(time_str)
          min_ready_time == MinReadyTimeRequested(date_obj, now_local)
      IN  IF ~is_within_hours(requested_time, business_hours)
          THEN OutsideHoursResponse(date_obj, time_str, requested_time,
                                    business_hours, table)
          ELSE IF date_obj = now_local.date /\ TimeLT(requested_time, min_ready_time)
          THEN [kind |-> "structured",
                data |-> [status |-> "unavailable",
                          reason |-> "insufficient_production_time",
                          minimum_ready_time |-> FormatHM(min_ready_time)],
                message |-> [template |-> "O prazo está em cima",
                             ready_at |-> FormatHM(min_ready_time)],
                queries |-> 1]
          ELSE [kind |-> "structured",
                data |-> [status |-> "available", date |-> date_str, time |-> time_str],
                message |-> [template |-> "Perfeito! Tá marcado",
                             day_name |-> day_names[Weekday(date_obj)],
                             time |-> time_str],
                queries |-> 1]

\* available_now: the blocks that end after min_ready_time, each cut to start
\* at max(block start, min_ready_time)
RECURSIVE AvailableNowFrom(_, _, _)
AvailableNowFrom(business_hours, min_ready_time, i) ==
    IF i > Len(business_hours) THEN << >>
    ELSE LET s == business_hours[i][1]
             e == business_hours[i][2]
             rest == AvailableNowFrom(business_hours, min_ready_time, i + 1)
         IN  IF TimeLT(min_ready_time, e)
             THEN << <<TimeMax(s, min_ready_time), e>> >> \o rest
             ELSE rest

available_now(business_hours, min_ready_time) ==
    AvailableNowFrom(business_hours, min_ready_time, 1)

\* "Round up to next 30min if not perfectly aligned"
RoundUp30(temp_dt) ==
    IF MinuteOf(temp_dt) > 30 THEN AddHours(ReplaceMinute(temp_dt, 0), 1)
    ELSE IF MinuteOf(temp_dt) > 0 /\ MinuteOf(temp_dt) < 30 THEN ReplaceMinute(temp_dt, 30)
    ELSE temp_dt

\* while temp_dt <= end_dt: append temp_dt.time().strftime("%H:%M"); temp_dt += 30 min
RECURSIVE SlotsUntil(_, _)
SlotsUntil(temp_dt, end_dt) ==
    IF DateTimeLE(temp_dt, end_dt)
    THEN <<FormatHM(temp_dt.time)>> \o SlotsUntil(AddMinutes(temp_dt, 30), end_dt)
    ELSE << >>

\* suggested_slots: the slots of every block of available_now, in order
RECURSIVE SuggestedSlotsFrom(_, _, _)
SuggestedSlotsFrom(date_obj, blocks, i) ==
    IF i > Len(blocks) THEN << >>
    ELSE SlotsUntil(RoundUp30(Combine(date_obj, blocks[i][1])),
                    Combine(date_obj, blocks[i][2]))
         \o SuggestedSlotsFrom(date_obj, blocks, i + 1)

suggested_slots(date_obj, blocks) == SuggestedSlotsFrom(date_obj, blocks, 1)

\* the answer for a day that is not today: the day's blocks, no slot list
DayOverview(date_str, date_obj, now_local, business_hours) ==
    LET hours_fmt == format_hours(business_hours)
    IN  [kind |-> "structured",
         data |-> [status |-> "available", date |-> date_str,
                   available_hours |-> hours_fmt,
                   current_time_campina |-> FormatHM(now_local.time)],
         message |-> [template |-> "é perfeitinho",
                      day_name |-> day_names[Weekday(date_obj)],
                      date |-> FormatDayMonth(date_obj), hours |-> hours_fmt],
         queries |-> 1]

\* the "if date_obj == now_local.date():" block of the branch without a time
TodayOverview(date_obj, now_local, business_hours, table) ==
    LET current_time == now_local.time
        is_after_hours == TimeLT(business_hours[Len(business_hours)][2], current_time)
        next == get_next_available(table, date_obj)
        min_ready_time == AddHours(now_local, 1).time
        blocks == available_now(business_hours, min_ready_time)
    IN  IF is_after_hours
        THEN [kind |-> "structured",
              data |-> [status |-> "unavailable", reason |-> "after_hours_today",
                        current_time_campina |-> FormatHM(now_local.time)],
              message |-> [template |-> "hoje os pedidos já encerraram",
                           now |-> FormatHM(now_local.time),
                           next_day_name |-> next.day_name,
                           next_date |-> FormatDayMonth(next.date),
                           hours |-> format_hours(next.hours)],
              queries |-> 1 + next.scanned]
        ELSE IF blocks = << >>
        THEN [kind |-> "structured",
              data |-> [status |-> "unavailable", reason |-> "no_slots_left_today",
                        current_time_campina |-> FormatHM(now_local.time)],
              message |-> [template |-> "Hoje não conseguimos mais produzir a tempo",
                           now |-> FormatHM(now_local.time),
                           tomorrow_at |-> FormatHM(next.hours[1][1])],
              queries |-> 1 + next.scanned]
        ELSE [kind |-> "structured",
              data |-> [status |-> "available", today |-> TRUE,
                        current_time_campina |-> FormatHM(now_local.time),
                        available_hours_total |-> format_hours(business_hours),
                        available_from_now |-> format_hours(blocks),
                        suggested_slots |-> suggested_slots(date_obj, blocks)],
              message |-> [template |-> "Hoje ainda dá",
                           now |-> FormatHM(now_local.time),
                           slots |-> suggested_slots(date_obj, blocks)],
              queries |-> 1]

\* the branch without a time that answers every day, today included, with the
\* day's blocks
NoTimeBranch_OverviewOnly(date_str, date_obj, now_local, business_hours, table) ==
    DayOverview(date_str, date_obj, now_local, business_hours)

\* the "else:" branch (no time given), after the holiday lookup found the day open
NoTimeBranch(date_str, date_obj, now_local, business_hours, table) ==
    IF date_obj = now_local.date
    THEN TodayOverview(date_obj, now_local, business_hours, table)
    ELSE DayOverview(date_str, date_obj, now_local, business_hours)

\* the tool with the holiday check made before the Sunday check
ValidateResponse_HolidayFirst(date_str, time_str, now_local, table, holiday_info, up) ==
    IF ~DateParses(date_str) THEN DateFormatError
    ELSE IF ~up THEN ValidateError(0)
    ELSE
      LET date_obj == ParseDate(date_str)
          day_num == Weekday(date_obj)
          business_hours == BUSINESS_HOURS[day_num]
      IN  IF holiday_info.found
          THEN HolidayResponse(date_str, date_obj, table, holiday_info)
          ELSE IF day_num = 6 THEN SundayResponse(date_str, date_obj, table)
          ELSE IF business_hours = << >>
          THEN NoBusinessHoursResponse(date_str, date_obj, table)
          ELSE IF time_str.kind \notin {"none", "empty"}
          THEN TimeBranch(date_str, time_str, date_obj, now_local, business_hours, table)
          ELSE NoTimeBranch(date_str, date_obj, now_local, business_hours, table)

\* validate_delivery_availability(date_str, time_str) as a function of what it
\* reads: the clock (now_local), the Holiday table, the row the holiday query
\* returns for the requested date (holiday_info, found = FALSE for no row) and
\* whether the store answers (up)
ValidateResponse(date_str, time_str, now_local, table, holiday_info, up) ==
    IF ~DateParses(date_str) THEN DateFormatError
    ELSE IF ~up THEN ValidateError(0)
    ELSE
      LET date_obj == ParseDate(date_str)
          day_num == Weekday(date_obj)
          business_hours == BUSINESS_HOURS[day_num]
      IN  IF day_num = 6 THEN SundayResponse(date_str, date_obj, table)
          ELSE IF holiday_info.found
          THEN HolidayResponse(date_str, date_obj, table, holiday_info)
          ELSE IF business_hours = << >>
          THEN NoBusinessHoursResponse(date_str, date_obj, table)
          ELSE IF time_str.kind \notin {"none", "empty"}
          THEN TimeBranch(date_str, time_str, date_obj, now_local, business_hours, table)
          ELSE NoTimeBranch(date_str, date_obj, now_local, business_hours, table)

\* the answers the holiday query can give for the requested date: any one
\* matching row (LIMIT 1 without ORDER BY), or no row
HolidayAnswers(table, date_str) ==
    IF DateParses(date_str) /\ HolidayMatches(table, ParseDate(date_str)) # {}
    THEN {[found |-> TRUE, name |-> r.name] :
             r \in HolidayMatches(table, ParseDate(date_str))}
    ELSE {[found |-> FALSE, name |-> ""]}

(***************************************************************************)
(* Bounds and input sets                                                   *)
(***************************************************************************)
\* rows the Holiday table may hold at once
MaxHolidays == 2

\* longest closure modelled, in days after its start_date
MaxSpan == 1

\* days the clock and the requests range over, from FirstDate on
NumDays == 5

\* 2026-01-30, a Friday; the days after it are a Saturday, a Sunday, a Monday ...
FirstDate == ToOrdinal(2026, 1, 30)

Dates == FirstDate..(FirstDate + NumDays - 1)

\* date_str arguments that name a date: every date of the window
GoodDateStrs == {FormatDate(d) : d \in Dates}

\* date_str arguments that name no date: a day that the month does not have, a
\* month that does not exist, and a text that is no date
BadDateStrs ==
    {[kind |-> "ymd", y |-> 2026, m |-> 2, d |-> 30],
     [kind |-> "ymd", y |-> 2026, m |-> 13, d |-> 1],
     [kind |-> "text", y |-> 0, m |-> 0, d |-> 0]}

DateStrs == GoodDateStrs \cup BadDateStrs

NoTime == [kind |-> "none", h |-> 0, m |-> 0]

EmptyTime == [kind |-> "empty", h |-> 0, m |-> 0]

HM(h, m) == [kind |-> "hm", h |-> h, m |-> m]

\* time_str arguments that are no time: an hour 24, a minute 60, another text
BadTimeStrs == {HM(24, 0), HM(12, 60), [kind |-> "text", h |-> 0, m |-> 0]}

\* time_str arguments of the calendar specification
CalendarTimeStrs ==
    {NoTime, EmptyTime} \cup BadTimeStrs
    \cup {HM(7, 0), HM(10, 0), HM(13, 0), HM(16, 45), HM(18, 0)}

\* clock readings (time of day) of the calendar specification
CalendarClockTimes == {Time(9, 0, 20, 0), Time(16, 30, 0, 0), Time(23, 30, 0, 0)}

\* a closure starts on the Saturday or on the Monday of the window
HolidayStarts == {FirstDate + 1, FirstDate + 3}

HolidayName(span) == IF span = 0 THEN "Feriado" ELSE "Recesso"

\* the rows staff may enter in public."Holiday"
HolidayRows ==
    {[name |-> HolidayName(n), start_date |-> s, end_date |-> s + n, is_active |-> a] :
        s \in HolidayStarts, n \in 0..MaxSpan, a \in BOOLEAN}

Idle == [tool |-> "idle"]

\* get_next_available is not running
NoScan == [pc |-> "idle"]

\* the invocations that use the pool, at most MaxTasks at a time
MaxTasks == 3

Tasks == 1..MaxTasks

\* an invocation that has not started
NotStarted == [pc |-> "idle", pool |-> 0, conns |-> 0, left |-> 0, outcome |-> "none"]

\* no invocation has started
NoTasks == [t \in Tasks |-> NotStarted]

\* no pool has been created
NoPools == << >>

\* no request to POST /call is being served
NoRequest == [stage |-> "idle"]

\* the agent has noted no answer of validate_delivery_availability yet
NoAnswer == [date_str |-> [kind |-> "none"], holiday |-> FALSE]

\* an invocation slot of a tool that is not in use
NotInvoked == [pc |-> "idle"]

\* invocations that may be in flight at once
MaxProcs == 3

Procs == 1..MaxProcs

\* the module just loaded: db_pool = None, nothing in flight; the
\* CustomerMemory table is empty
ServerStarted ==
    /\ db_pool = "None"
    /\ CustomerMemory = {}
    /\ procs = [p \in Procs |-> NotInvoked]
    /\ applied = << >>
    /\ AIAgentSession = {}
    /\ id_type = "text"
    /\ outbound = << >>
    /\ EVOLUTION_API_CONFIG = "set"
    /\ answered = NoAnswer
    /\ http = NoRequest
    /\ scan = NoScan
    /\ tasks = NoTasks
    /\ pools = NoPools

NoResult == [kind |-> "none"]

(***************************************************************************)
(* State machine                                                           *)
(***************************************************************************)
\* the tool invocation as one step: it reads the clock and the Holiday table
\* and returns; the state it leaves is the instant of its return
validate_delivery_availability(date_str, time_str) ==
    /\ call = Idle
    /\ \E holiday_info \in HolidayAnswers(Holiday, date_str) :
          LET r == ValidateResponse(date_str, time_str, clock, Holiday, holiday_info, dbUp)
          IN  /\ result' = [x \in DOMAIN r \ {"queries"} |-> r[x]]
              /\ holiday_lookups' = r.queries
    /\ call' = [tool |-> "validate_delivery_availability",
                date_str |-> date_str, time_str |-> time_str]
    /\ db_pool' = IF DateParses(date_str) /\ dbUp THEN "pool" ELSE db_pool
    /\ UNCHANGED <<clock, Holiday, dbUp>>
    /\ UNCHANGED storeVars
    /\ UNCHANGED <<answered, http>>
    /\ UNCHANGED taskVars

\* the agent runtime takes the tool's text; the server is ready for the next call
ReturnToAgent ==
    /\ call # Idle
    /\ call' = Idle
    /\ result' = NoResult
    /\ holiday_lookups' = 0
    /\ outbound' = << >>
    /\ UNCHANGED <<clock, Holiday, dbUp, db_pool>>
    /\ UNCHANGED <<AIAgentSession, id_type, EVOLUTION_API_CONFIG>>
    /\ UNCHANGED memoryVars
    /\ UNCHANGED <<answered, http>>
    /\ UNCHANGED taskVars

\* _get_local_time(): the wall clock of America/Fortaleza moves on between calls
Tick(times) ==
    /\ call = Idle
    /\ \E d \in Dates, t \in times :
          /\ DateTimeLE(clock, Combine(d, t)) /\ clock # Combine(d, t)
          /\ clock' = Combine(d, t)
    /\ UNCHANGED <<Holiday, dbUp, call, result, holiday_lookups, db_pool>>
    /\ UNCHANGED storeVars
    /\ UNCHANGED <<answered, http>>
    /\ UNCHANGED taskVars

\* staff enter a closure in public."Holiday"
AddHoliday ==
    /\ call = Idle
    /\ Cardinality(Holiday) < MaxHolidays
    /\ \E r \in HolidayRows \ Holiday : Holiday' = Holiday \cup {r}
    /\ UNCHANGED <<clock, dbUp, call, result, holiday_lookups, db_pool>>
    /\ UNCHANGED storeVars
    /\ UNCHANGED <<answered, http>>
    /\ UNCHANGED taskVars

\* staff switch is_active of a closure
SetHolidayActive ==
    /\ call = Idle
    /\ \E r \in Holiday :
          /\ [r EXCEPT !.is_active = ~r.is_active] \notin Holiday
          /\ Holiday' = (Holiday \ {r}) \cup {[r EXCEPT !.is_active = ~r.is_active]}
    /\ UNCHANGED <<clock, dbUp, call, result, holiday_lookups, db_pool>>
    /\ UNCHANGED storeVars
    /\ UNCHANGED <<answered, http>>
    /\ UNCHANGED taskVars

\* staff delete a closure
RemoveHoliday ==
    /\ call = Idle
    /\ \E r \in Holiday : Holiday' = Holiday \ {r}
    /\ UNCHANGED <<clock, dbUp, call, result, holiday_lookups, db_pool>>
    /\ UNCHANGED storeVars
    /\ UNCHANGED <<answered, http>>
    /\ UNCHANGED taskVars

Validate == \E date_str \in DateStrs, time_str \in CalendarTimeStrs :
                validate_delivery_availability(date_str, time_str)

ClockMoves == Tick(CalendarClockTimes)

Init ==
    /\ clock \in {Combine(d, t) : d \in Dates, t \in CalendarClockTimes}
    /\ Holiday = {}
    /\ dbUp = TRUE
    /\ call = Idle
    /\ result = NoResult
    /\ holiday_lookups = 0
    /\ ServerStarted

Next ==
    \/ Validate
    \/ ReturnToAgent
    \/ ClockMoves
    \/ AddHoliday
    \/ SetHolidayActive
    \/ RemoveHoliday

\* calendar specification: every date and Holiday table, a few times of day
Spec == Init /\ [][Next]_vars

\* clock readings (time of day) of the hours specification: around every open
\* and close, one hour before them, on and off the 30-minute grid, with and
\* without seconds and microseconds, and the last hour of the day
HoursClockTimes ==
    {Time(6, 29, 59, 999999), Time(6, 30, 0, 0), Time(7, 0, 0, 0),
     Time(9, 0, 0, 0), Time(9, 0, 20, 0), Time(9, 0, 0, 1), Time(9, 10, 0, 0),
     Time(9, 30, 30, 0), Time(9, 45, 10, 0), Time(9, 59, 30, 0),
     Time(10, 0, 0, 0), Time(10, 59, 59, 0), Time(11, 0, 0, 0), Time(11, 30, 0, 0),
     Time(12, 30, 0, 0), Time(13, 0, 0, 0), Time(15, 59, 0, 0), Time(15, 59, 30, 0),
     Time(16, 0, 0, 0), Time(16, 0, 0, 1), Time(16, 30, 0, 0), Time(17, 0, 0, 0),
     Time(17, 0, 1, 0), Time(23, 30, 0, 0), Time(23, 59, 59, 999999)}

\* time_str arguments of the hours specification
HoursTimeStrs ==
    {NoTime, EmptyTime} \cup BadTimeStrs
    \cup {HM(0, 0), HM(0, 15), HM(7, 0), HM(7, 29), HM(7, 30), HM(8, 0), HM(9, 30),
          HM(10, 0), HM(10, 1), HM(11, 0), HM(11, 1), HM(11, 50), HM(12, 0),
          HM(12, 1), HM(12, 30), HM(13, 0), HM(13, 59), HM(14, 0), HM(16, 30),
          HM(16, 59), HM(17, 0), HM(17, 1), HM(23, 59)}

\* Holiday tables of the hours specification: empty, or one active closure
HoursTables == {{}} \cup {{r} : r \in {x \in HolidayRows : x.is_active}}

ValidateHours == \E date_str \in DateStrs, time_str \in HoursTimeStrs :
                     validate_delivery_availability(date_str, time_str)

ClockMovesHours == Tick(HoursClockTimes)

InitHours ==
    /\ clock \in {Combine(d, t) : d \in Dates, t \in HoursClockTimes}
    /\ Holiday \in HoursTables
    /\ dbUp = TRUE
    /\ call = Idle
    /\ result = NoResult
    /\ holiday_lookups = 0
    /\ ServerStarted

NextHours ==
    \/ ValidateHours
    \/ ReturnToAgent
    \/ ClockMovesHours

\* hours specification: every time of day of interest, a few Holiday tables
SpecHours == InitHours /\ [][NextHours]_vars

(***************************************************************************)
(* calculate_freight                                                       *)
(*                                                                         *)
(* A str argument is [kind, chars]: kind "none" is the Python None, kind   *)
(* "str" a text whose characters are chars.                                *)
(***************************************************************************)
UpperChars ==
    <<"A", "B", "C", "D", "E", "F", "G", "H", "I", "J", "K", "L", "M", "N", "O", "P",
      "Q", "R", "S", "T", "U", "V", "W", "X", "Y", "Z", "Ã", "Á", "Â", "É", "Ê", "Í",
      "Ó", "Ô", "Õ", "Ú", "Ç">>

LowerChars ==
    <<"a", "b", "c", "d", "e", "f", "g", "h", "i", "j", "k", "l", "m", "n", "o", "p",
      "q", "r", "s", "t", "u", "v", "w", "x", "y", "z", "ã", "á", "â", "é", "ê", "í",
      "ó", "ô", "õ", "ú", "ç">>

\* one character of str.lower()
LowerChar(c) ==
    IF \E i \in 1..Len(UpperChars) : UpperChars[i] = c
    THEN LowerChars[CHOOSE i \in 1..Len(UpperChars) : UpperChars[i] = c]
    ELSE c

\* str.lower()
StrLower(t) == [i \in 1..Len(t) |-> LowerChar(t[i])]

\* the characters str.strip() removes
IsSpace(c) == c \in {" ", "\t", "\n", "\r"}

\* str.strip()
StrStrip(t) ==
    LET keep == {i \in 1..Len(t) : ~IsSpace(t[i])}
    IN  IF keep = {} THEN << >>
        ELSE SubSeq(t, CHOOSE i \in keep : \A j \in keep : i <= j,
                       CHOOSE i \in keep : \A j \in keep : i >= j)

\* sub in t
StrContains(t, sub) ==
    \E i \in 0..(Len(t) - Len(sub)) : SubSeq(t, i + 1, i + Len(sub)) = sub

\* t.startswith(prefix)
StrStartsWith(t, prefix) ==
    Len(t) >= Len(prefix) /\ SubSeq(t, 1, Len(prefix)) = prefix

\* \w of the re module on str: letters, digits and the underscore
IsWordChar(c) ==
    \/ \E i \in 1..Len(UpperChars) : c = UpperChars[i] \/ c = LowerChars[i]
    \/ c \in {"0", "1", "2", "3", "4", "5", "6", "7", "8", "9", "_"}

\* re.search(r"\bword\b", t) for a word made of word characters
SearchWholeWord(t, word) ==
    \E i \in 0..(Len(t) - Len(word)) :
        /\ SubSeq(t, i + 1, i + Len(word)) = word
        /\ i = 0 \/ ~IsWordChar(t[i])
        /\ i + Len(word) = Len(t) \/ ~IsWordChar(t[i + Len(word) + 1])

\* the keys of is_card
CardKeys ==
    {<<"c", "a", "r", "t">>,
     <<"c", "a", "r", "t", "ã", "o">>,
     <<"c", "a", "r", "t", "a", "o">>,
     <<"c", "r", "e", "d", "i", "t", "o">>,
     <<"c", "r", "é", "d", "i", "t", "o">>,
     <<"d", "e", "b", "i", "t", "o">>,
     <<"d", "é", "b", "i", "t", "o">>}

\* neighbors
neighbors ==
    {<<"p", "u", "x", "i", "n", "a", "n", "ã">>,
     <<"p", "u", "x", "i", "n", "a", "n", "a">>,
     <<"l", "a", "g", "o", "a", " ", "s", "e", "c", "a">>,
     <<"q", "u", "e", "i", "m", "a", "d", "a", "s">>,
     <<"m", "a", "s", "s", "a", "r", "a", "n", "d", "u", "b", "a">>,
     <<"l", "a", "g", "o", "a", " ", "d", "e", " ", "r", "o", "ç", "a">>,
     <<"l", "a", "g", "o", "a", " ", "d", "e", " ", "r", "o", "c", "a">>,
     <<"e", "s", "p", "e", "r", "a", "n", "ç", "a">>,
     <<"e", "s", "p", "e", "r", "a", "n", "c", "a">>}

\* "not x or str(x).strip() == ''" of the two presence checks
IsMissing(x) == x.kind = "none" \/ x.chars = << >> \/ StrStrip(x.chars) = << >>

FreightError(code) ==
    [kind |-> "structured", data |-> [status |-> "error", error |-> code],
     message |-> [template |-> code]]

\* the sentence "Frete para {city}: R$ {val:.2f}", the fee held in centavos
FreightFee(city, centavos, note) ==
    [kind |-> "text",
     message |-> [template |-> "Frete para", city |-> city, fee |-> centavos,
                  note |-> note]]

\* the sentences that leave the amount to the human attendant
FreightByAttendant(city, note) ==
    [kind |-> "text", message |-> [template |-> "Frete para", city |-> city, note |-> note]]

\* calculate_freight after the two presence checks: the fee by locality and
\* payment method
FreightPriced(city, payment_method) ==
    LET city_lower == StrStrip(StrLower(city.chars))
        method_lower == StrStrip(StrLower(payment_method.chars))
        is_pix == StrStartsWith(method_lower, <<"p", "i", "x">>)
        is_card == \E k \in CardKeys : StrContains(method_lower, k)
        is_neighbor == \E n \in neighbors : StrContains(city_lower, n)
    IN  IF \/ SearchWholeWord(city_lower, <<"c", "a", "m", "p", "i", "n", "a">>)
           \/ StrContains(city_lower, <<"c", "a", "m", "p", "i", "n", "a", " ",
                                        "g", "r", "a", "n", "d", "e">>)
        THEN FreightFee(city, IF is_pix THEN 0 ELSE 1000, "")
        ELSE IF is_neighbor
        THEN IF is_pix THEN FreightFee(city, 1500, "")
             ELSE FreightByAttendant(city, "repassado pelo atendente humano")
        ELSE IF is_pix
             THEN FreightFee(city, 1500, "Valor padrão para região metropolitana")
             ELSE IF is_card
             THEN FreightByAttendant(city, "será confirmado pelo atendente humano")
             ELSE FreightError("unknown_payment_method")

\* the tool with the payment method's presence checked before the city's
FreightResponse_MethodFirst(city, payment_method) ==
    IF IsMissing(payment_method) THEN FreightError("missing_payment_method")
    ELSE IF IsMissing(city) THEN FreightError("missing_city")
    ELSE FreightPriced(city, payment_method)

\* calculate_freight(city, payment_method)
FreightResponse(city, payment_method) ==
    IF IsMissing(city) THEN FreightError("missing_city")
    ELSE IF IsMissing(payment_method) THEN FreightError("missing_payment_method")
    ELSE FreightPriced(city, payment_method)

Str(chars) == [kind |-> "str", chars |-> chars]

NoneStr == [kind |-> "none", chars |-> << >>]

\* city arguments: written as the local locality
LocalCities ==
    {Str(<<"C", "a", "m", "p", "i", "n", "a", " ", "G", "r", "a", "n", "d", "e">>),
     Str(<<"c", "a", "m", "p", "i", "n", "a", " ", "g", "r", "a", "n", "d", "e">>),
     Str(<<" ", " ", "C", "A", "M", "P", "I", "N", "A", " ",
           "G", "R", "A", "N", "D", "E", " ">>),
     Str(<<"C", "a", "m", "p", "i", "n", "a", "-", "G", "r", "a", "n", "d", "e">>),
     Str(<<"C", "a", "m", "p", "i", "n", "a">>)}

\* city arguments: written as a neighbouring locality
NeighbourCities ==
    {Str(<<"P", "u", "x", "i", "n", "a", "n", "ã">>),
     Str(<<"P", "U", "X", "I", "N", "A", "N", "A">>),
     Str(<<"L", "a", "g", "o", "a", " ", "S", "e", "c", "a">>),
     Str(<<"Q", "u", "e", "i", "m", "a", "d", "a", "s">>)}

\* city arguments: other localities, and names that only resemble the local one
OtherCities ==
    {Str(<<"J", "o", "ã", "o", " ", "P", "e", "s", "s", "o", "a">>),
     Str(<<"R", "e", "c", "i", "f", "e">>),
     Str(<<"C", "a", "m", "p", "i", "n", "a", "s">>)}

\* city arguments: absent, empty or blank
BlankStrs ==
    {NoneStr, Str(<<>>),
     Str(<<" ">>),
     Str(<<" ", " ", " ">>)}

\* payment_method arguments: pix
PixMethods ==
    {Str(<<"p", "i", "x">>),
     Str(<<"P", "I", "X">>),
     Str(<<" ", "P", "i", "x", " ">>)}

\* payment_method arguments: card
CardMethods ==
    {Str(<<"c", "a", "r", "t", "a", "o">>),
     Str(<<"C", "a", "r", "t", "ã", "o">>),
     Str(<<"c", "a", "r", "t", "ã", "o", " ", "d", "e", " ", "c", "r", "é", "d", "i", "t", "o">>),
     Str(<<"d", "e", "b", "i", "t", "o">>),
     Str(<<"c", "r", "é", "d", "i", "t", "o">>)}

\* payment_method arguments: neither pix nor card, or both
OtherMethods ==
    {Str(<<"d", "i", "n", "h", "e", "i", "r", "o">>),
     Str(<<"b", "o", "l", "e", "t", "o">>),
     Str(<<"p", "i", "x", " ", "n", "o", " ", "c", "a", "r", "t", "ã", "o">>)}

Cities == LocalCities \cup NeighbourCities \cup OtherCities \cup BlankStrs

Methods == PixMethods \cup CardMethods \cup OtherMethods \cup BlankStrs

\* the tool invocation as one step
calculate_freight(city, payment_method) ==
    /\ call = Idle
    /\ result' = FreightResponse(city, payment_method)
    /\ call' = [tool |-> "calculate_freight", city |-> city,
                payment_method |-> payment_method]
    /\ UNCHANGED <<clock, Holiday, dbUp, holiday_lookups, db_pool>>
    /\ UNCHANGED storeVars
    /\ UNCHANGED <<answered, http>>
    /\ UNCHANGED taskVars

Freight == \E city \in Cities, payment_method \in Methods :
               calculate_freight(city, payment_method)

InitFreight ==
    /\ clock = Combine(FirstDate, Time(9, 0, 0, 0))
    /\ Holiday = {}
    /\ dbUp = TRUE
    /\ call = Idle
    /\ result = NoResult
    /\ holiday_lookups = 0
    /\ ServerStarted

NextFreight ==
    \/ Freight
    \/ ReturnToAgent

\* freight specification: the calculator on every city and payment method
SpecFreight == InitFreight /\ [][NextFreight]_vars

(***************************************************************************)
(* save_customer_summary                                                   *)
(*                                                                         *)
(* An invocation is a coroutine: it runs from one await to the next        *)
(* without interruption, and other invocations, the clock and the store   *)
(* move at its awaits.  procs[p] holds the invocation in slot p: its       *)
(* position pc, its arguments, the clock value it read (now_local) and,   *)
(* once it has returned, its result.  A slot is used once and the slots    *)
(* are taken in order.  applied is                                         *)
(* the order in which the store applied the writes of the invocations,   *)
(* and procs[p].after the invocations that had returned when p started.   *)
(***************************************************************************)
\* now_local + timedelta(days = n)
AddDays(dt, n) == [date |-> dt.date + n, time |-> dt.time]

\* the INSERT with gen_random_uuid() left out of ON CONFLICT: a row is added
\* whatever the table holds
UpsertCustomerMemory_InsertOnly(table, customer_phone, summary, updated_at, expires_at) ==
    table \cup {[id |-> Cardinality(table) + 1, customer_phone |-> customer_phone,
                 summary |-> summary, updated_at |-> updated_at,
                 expires_at |-> expires_at]}

\* an upsert that merges: it takes the new text but keeps the later of the
\* two updated_at values
UpsertCustomerMemory_KeepsLatestTime(table, customer_phone, summary, updated_at, expires_at) ==
    IF \E r \in table : r.customer_phone = customer_phone
    THEN {IF r.customer_phone = customer_phone
          THEN [r EXCEPT !.summary = summary,
                         !.updated_at = IF DateTimeLE(updated_at, @) THEN @
                                        ELSE updated_at,
                         !.expires_at = expires_at]
          ELSE r : r \in table}
    ELSE table \cup {[id |-> Cardinality(table) + 1,
                      customer_phone |-> customer_phone, summary |-> summary,
                      updated_at |-> updated_at, expires_at |-> expires_at]}

\* INSERT INTO public."CustomerMemory" ... ON CONFLICT (customer_phone) DO UPDATE
\* SET summary = $2, updated_at = $3, expires_at = $4; the id of a new row is
\* one no row has
UpsertCustomerMemory(table, customer_phone, summary, updated_at, expires_at) ==
    IF \E r \in table : r.customer_phone = customer_phone
    THEN {IF r.customer_phone = customer_phone
          THEN [r EXCEPT !.summary = summary, !.updated_at = updated_at,
                         !.expires_at = expires_at]
          ELSE r : r \in table}
    ELSE table \cup {[id |-> Cardinality(table) + 1,
                      customer_phone |-> customer_phone, summary |-> summary,
                      updated_at |-> updated_at, expires_at |-> expires_at]}

\* RETURNING id
ReturnedId(table, customer_phone) ==
    (CHOOSE r \in table : r.customer_phone = customer_phone).id

\* an exception leaves the tool function
Raised(error) == [kind |-> "exception", error |-> error]

\* "pool = await get_db_pool()" and "now_local = _get_local_time()"
SaveStart(p, customer_phone, summary) ==
    /\ procs[p].pc = "idle"
    /\ \A q \in 1..(p - 1) : procs[q].pc # "idle"
    /\ IF db_pool = "None" /\ ~dbUp
       THEN /\ procs' = [procs EXCEPT ![p] =
                 [pc |-> "returned", tool |-> "save_customer_summary",
                  customer_phone |-> customer_phone, summary |-> summary,
                  after |-> {q \in Procs : procs[q].pc = "returned"},
                  result |-> Raised("create_pool")]]
            /\ UNCHANGED db_pool
       ELSE /\ procs' = [procs EXCEPT ![p] =
                 [pc |-> "acquire", tool |-> "save_customer_summary",
                  customer_phone |-> customer_phone, summary |-> summary,
                  after |-> {q \in Procs : procs[q].pc = "returned"},
                  now_local |-> clock]]
            /\ db_pool' = "pool"
    /\ UNCHANGED <<clock, Holiday, dbUp, call, result, holiday_lookups,
                   CustomerMemory, applied>>
    /\ UNCHANGED supportVars
    /\ UNCHANGED <<answered, http>>
    /\ UNCHANGED taskVars

\* "async with pool.acquire() as conn:" with the store unreachable the pool
\* either fails to connect, or hands out a connection that is already dead
SaveAcquire(p) ==
    /\ procs[p].pc = "acquire"
    /\ \/ procs' = [procs EXCEPT ![p].pc = "query"]
       \/ /\ ~dbUp
          /\ procs' = [procs EXCEPT ![p] =
                [pc |-> "returned", tool |-> @.tool,
                 customer_phone |-> @.customer_phone, summary |-> @.summary,
                 after |-> @.after, result |-> Raised("acquire")]]
    /\ UNCHANGED <<clock, Holiday, dbUp, call, result, holiday_lookups,
                   db_pool, CustomerMemory, applied>>
    /\ UNCHANGED supportVars
    /\ UNCHANGED <<answered, http>>
    /\ UNCHANGED taskVars

\* the try block: expires_at, the upsert as one statement, the response
SaveQuery(p) ==
    /\ procs[p].pc = "query"
    /\ LET me == procs[p]
           expires_at == AddDays(me.now_local, 15)
           table == UpsertCustomerMemory(CustomerMemory, me.customer_phone,
                                         me.summary, me.now_local, expires_at)
       IN  IF dbUp
           THEN /\ CustomerMemory' = table
                /\ applied' = Append(applied, p)
                /\ procs' = [procs EXCEPT ![p] =
                      [pc |-> "returned", tool |-> me.tool,
                       customer_phone |-> me.customer_phone,
                       summary |-> me.summary, after |-> me.after,
                       now_local |-> me.now_local,
                       result |->
                         [kind |-> "structured",
                          data |-> [status |-> "success",
                                    customer_phone |-> me.customer_phone,
                                    memory_id |-> ReturnedId(table, me.customer_phone)],
                          message |-> [template |-> "Memória atualizada para",
                                       customer_phone |-> me.customer_phone]]]]
           ELSE /\ procs' = [procs EXCEPT ![p] =
                      [pc |-> "returned", tool |-> me.tool,
                       customer_phone |-> me.customer_phone,
                       summary |-> me.summary, after |-> me.after,
                       now_local |-> me.now_local,
                       result |-> [kind |-> "text",
                                   message |-> [template |-> "Erro:"]]]]
                /\ UNCHANGED <<CustomerMemory, applied>>
    /\ UNCHANGED <<clock, Holiday, dbUp, call, result, holiday_lookups, db_pool>>
    /\ UNCHANGED supportVars
    /\ UNCHANGED <<answered, http>>
    /\ UNCHANGED taskVars

\* customer_phone arguments
Phones == {"5583911110000", "5583922220000"}

\* summary arguments
Summaries == {"cesta A, pix", "cesta B, entrega sábado"}

\* clock readings of the memory specification
StoreClocks ==
    {Combine(FirstDate, Time(9, 0, 0, 0)), Combine(FirstDate, Time(9, 0, 0, 1)),
     Combine(FirstDate + 1, Time(8, 30, 0, 0))}

\* the wall clock moves on, also while invocations are in flight
StoreTick ==
    /\ \E dt \in StoreClocks :
          /\ DateTimeLE(clock, dt) /\ clock # dt
          /\ clock' = dt
    /\ UNCHANGED <<Holiday, dbUp, call, result, holiday_lookups, db_pool>>
    /\ UNCHANGED storeVars
    /\ UNCHANGED <<answered, http>>
    /\ UNCHANGED taskVars

save_customer_summary ==
    \E p \in Procs :
        \/ \E customer_phone \in Phones, summary \in Summaries :
              SaveStart(p, customer_phone, summary)
        \/ SaveAcquire(p)
        \/ SaveQuery(p)

InitStore ==
    /\ clock = Combine(FirstDate, Time(9, 0, 0, 0))
    /\ Holiday = {}
    /\ dbUp = TRUE
    /\ call = Idle
    /\ result = NoResult
    /\ holiday_lookups = 0
    /\ ServerStarted

NextStore ==
    \/ save_customer_summary
    \/ StoreTick

\* memory specification: concurrent save_customer_summary invocations and the
\* clock, the store reachable
SpecStore == InitStore /\ [][NextStore]_vars

(***************************************************************************)
(* block_session                                                           *)
(*                                                                         *)
(* The definition of "AIAgentSession" is not part of the sources: its id   *)
(* column is either of a text type or of type uuid (id_type), which fixes  *)
(* how the store treats the two UPDATE statements.  A parameter compared   *)
(* with a uuid column, or cast with ::uuid, is sent as a uuid: the driver  *)
(* rejects a text that is no UUID; a text column compared with a uuid      *)
(* value is rejected by the store (no operator text = uuid).               *)
(***************************************************************************)
\* session_id arguments written as a UUID
UuidTexts ==
    {"0b9f6c1e-6d1c-4a7e-9b65-1f2d3c4b5a69", "7c2d1a90-33aa-4f0e-8d11-9e8f7a6b5c4d"}

\* session_id arguments of another form
PlainTexts == {"5583911110000", "sessao-42"}

SessionIds == UuidTexts \cup PlainTexts

\* the statement "UPDATE 1" / "UPDATE 0" or the error of conn.execute for
\* UPDATE "AIAgentSession" SET ... WHERE id = $1
ExecuteUpdateById(table, column_type, session_id) ==
    IF column_type = "uuid" /\ session_id \notin UuidTexts THEN "DataError"
    ELSE IF \E r \in table : r.id = session_id THEN "UPDATE 1"
    ELSE "UPDATE 0"

\* the same for ... WHERE id = $1::uuid
ExecuteUpdateByUuidCast(table, column_type, session_id) ==
    IF column_type = "text" THEN "UndefinedFunctionError"
    ELSE IF session_id \notin UuidTexts THEN "DataError"
    ELSE IF \E r \in table : r.id = session_id THEN "UPDATE 1"
    ELSE "UPDATE 0"

\* the UPDATE without its WHERE clause: every row is blocked
BlockRow_EveryRow(table, session_id, expires_at) ==
    {[r EXCEPT !.is_blocked = TRUE, !.expires_at = expires_at] : r \in table}

\* SET is_blocked = true, expires_at = $2 on the row of the id
BlockRow(table, session_id, expires_at) ==
    {IF r.id = session_id
     THEN [r EXCEPT !.is_blocked = TRUE, !.expires_at = expires_at]
     ELSE r : r \in table}

\* the three sentences of _internal_block_session
BlockedText == [kind |-> "text", message |-> [template |-> "Sessão bloqueada com sucesso"]]

NotFoundText(session_id) ==
    [kind |-> "text",
     message |-> [template |-> "Aviso: Não foi possível encontrar a sessão",
                  session_id |-> session_id]]

BlockErrorText == [kind |-> "text", message |-> [template |-> "Erro ao bloquear sessão"]]

\* where an unreachable store makes an invocation fail: creating the pool
\* when there is none yet; with a pool, acquiring a connection or, on a
\* connection that is already dead, the query
FailurePoints(pool, up) ==
    IF up THEN {"none"}
    ELSE IF pool = "None" THEN {"create_pool"}
    ELSE {"acquire", "query"}

\* _internal_block_session(session_id): its return value, or the exception
\* that leaves it, and the table it leaves; 345600 seconds are 4 days
InternalBlockSession(session_id, table, column_type, now_local, failure) ==
    LET expires_at == AddDays(now_local, 4)
        first == ExecuteUpdateById(table, column_type, session_id)
        second == ExecuteUpdateByUuidCast(table, column_type, session_id)
        last == IF first = "UPDATE 0" THEN second ELSE first
    IN  IF failure \in {"create_pool", "acquire"}
        THEN [result |-> Raised(failure), table |-> table]
        ELSE IF failure = "query" \/ last \notin {"UPDATE 0", "UPDATE 1"}
        THEN [result |-> BlockErrorText, table |-> table]
        ELSE IF last = "UPDATE 1"
        THEN [result |-> BlockedText, table |-> BlockRow(table, session_id, expires_at)]
        ELSE [result |-> NotFoundText(session_id), table |-> table]

\* block_session(session_id) as one step
block_session(session_id) ==
    /\ call = Idle
    /\ \E failure \in FailurePoints(db_pool, dbUp) :
          LET r == InternalBlockSession(session_id, AIAgentSession, id_type, clock, failure)
          IN  /\ result' = r.result
              /\ AIAgentSession' = r.table
              /\ db_pool' = IF failure = "create_pool" THEN db_pool ELSE "pool"
    /\ call' = [tool |-> "block_session", session_id |-> session_id]
    /\ outbound' = << >>
    /\ UNCHANGED <<clock, Holiday, dbUp, holiday_lookups, id_type, EVOLUTION_API_CONFIG>>
    /\ UNCHANGED memoryVars
    /\ UNCHANGED <<answered, http>>
    /\ UNCHANGED taskVars

(***************************************************************************)
(* notify_human_support                                                    *)
(***************************************************************************)
\* the keywords of a finalization reason
FinalizationKeys ==
    {<<"f", "i", "n", "a", "l", "i", "z", "a">>,
     <<"f", "i", "n", "a", "l", "i", "z", "a", "ç", "ã", "o">>,
     <<"p", "e", "d", "i", "d", "o">>,
     <<"f", "i", "n", "a", "l", "i", "z", "a", "r">>,
     <<"f", "i", "n", "a", "l", "i", "z", "a", "d", "o">>}

\* required
required ==
    <<<<"c", "e", "s", "t", "a">>,
      <<"e", "n", "t", "r", "e", "g", "a">>,
      <<"e", "n", "d", "e", "r", "e", "ç", "o">>,
      <<"p", "a", "g", "a", "m", "e", "n", "t", "o">>>>

\* the keywords of _get_emoji_for_reason for the success tier
SuccessTierKeys ==
    {<<"f", "i", "n", "a", "l", "i", "z", "a">>,
     <<"p", "a", "g", "a">>,
     <<"c", "o", "m", "p", "r", "a">>,
     <<"p", "e", "d", "i", "d", "o">>,
     <<"c", "h", "e", "c", "k", "o", "u", "t">>,
     <<"c", "o", "n", "c", "l", "u", "í", "d", "o">>}

\* the texts that stand for a missing name, phone and context
Desconhecido == <<"D", "e", "s", "c", "o", "n", "h", "e", "c", "i", "d", "o">>

SemContato == <<"S", "e", "m", " ", "c", "o", "n", "t", "a", "t", "o">>

ContextoNaoFornecido ==
    <<"C", "o", "n", "t", "e", "x", "t", "o", " ", "n", "ã", "o", " ", "f", "o", "r",
      "n", "e", "c", "i", "d", "o", " ", "p", "e", "l", "a", " ", "I", "A">>

\* (x or "") of an optional str
OrEmpty(x) == IF x.kind = "none" THEN << >> ELSE x.chars

\* variant: the context is refused only when it holds none of the items
missing_NoneFound(ctx) ==
    IF \E i \in DOMAIN required : StrContains(ctx, required[i])
    THEN << >> ELSE required

\* [r for r in required if r not in ctx]
missing(ctx) == SelectSeq(required, LAMBDA r : ~StrContains(ctx, r))

\* the keywords of _get_emoji_for_reason for the medium tier
MediumTierKeys ==
    {<<"f", "r", "e", "t", "e">>, <<"d", "u", "v", "i", "d", "a">>}

\* the tiers tested in the other order: the medium tier before the success tier
GetEmojiForReason_MediumFirst(reason) ==
    LET reason_lower == StrLower(reason.chars)
    IN  IF \E kw \in MediumTierKeys : StrContains(reason_lower, kw) THEN "U+1F7E1"
        ELSE IF \E kw \in SuccessTierKeys : StrContains(reason_lower, kw)
        THEN "U+1F7E2"
        ELSE "U+1F534"

\* _get_emoji_for_reason(reason): the green (U+1F7E2), yellow (U+1F7E1) or red
\* (U+1F534) circle, written by its code point
GetEmojiForReason(reason) ==
    LET reason_lower == StrLower(reason.chars)
    IN  IF \E kw \in SuccessTierKeys : StrContains(reason_lower, kw) THEN "U+1F7E2"
        ELSE IF \E kw \in MediumTierKeys : StrContains(reason_lower, kw)
        THEN "U+1F7E1"
        ELSE "U+1F534"

\* _format_support_message(reason, customer_context, customer_name, customer_phone)
FormatSupportMessage(reason, customer_context, customer_name, customer_phone) ==
    LET reason_lower == StrLower(reason.chars)
        ctx == OrEmpty(customer_context)
    IN  [emoji |-> GetEmojiForReason(reason),
         nome |-> IF OrEmpty(customer_name) = << >> THEN Desconhecido
                  ELSE customer_name.chars,
         numero |-> IF OrEmpty(customer_phone) = << >> THEN SemContato
                    ELSE customer_phone.chars,
         descricao |->
            IF \/ StrContains(reason_lower, <<"f", "i", "n", "a", "l", "i", "z", "a">>)
               \/ StrContains(reason_lower, <<"p", "e", "d", "i", "d", "o">>)
            THEN "Pedido pronto para finalização humana"
            ELSE IF StrContains(reason_lower, <<"f", "r", "e", "t", "e">>)
            THEN "Dúvida ou confirmação de frete"
            ELSE "Acionamento",
         contexto |->
            IF ctx # << >> /\ StrLower(StrStrip(ctx)) # <<"n", "o", "n", "e">>
            THEN StrStrip(ctx)
            ELSE ContextoNaoFornecido]

\* what the messaging service answers to the POST: an HTTP status, or the
\* exception the request ends with
SendAnswers ==
    {[status |-> 200], [status |-> 201], [status |-> 400], [status |-> 500],
     [error |-> "ClientConnectorError"], [error |-> "TimeoutError"]}

\* _send_whatsapp_notification(message, ...): the POSTs it makes and the dict
\* it returns, for each answer of the service
SendWhatsappNotification(message, config) ==
    IF config = "missing"
    THEN {[posts |-> << >>,
           returns |-> [success |-> FALSE,
                        error |-> "Evolution API configuration missing"]]}
    ELSE {[posts |-> <<[text |-> message, answer |-> a]>>,
           returns |-> IF "status" \notin DOMAIN a
                       THEN [success |-> FALSE, error |-> a.error]
                       ELSE IF a.status \in {200, 201}
                       THEN [success |-> TRUE, status_code |-> a.status]
                       ELSE [success |-> FALSE, status_code |-> a.status]] :
        a \in SendAnswers}

\* the session_id argument left out (None)
NoSessionId == "None"

\* the truth value of the session_id argument
SessionIdGiven(session_id) == session_id \notin {NoSessionId, ""}

NotifiedText ==
    [kind |-> "text", message |-> [template |-> "Notificação enviada com sucesso"]]

NotifiedAndClosedText ==
    [kind |-> "text",
     message |-> [template |-> "Notificação enviada e atendimento encerrado com sucesso"]]

\* notify_human_support(...) as one step; the dict of
\* _send_whatsapp_notification and the text of _internal_block_session are
\* not looked at
notify_human_support(reason, customer_context, customer_name, customer_phone, should_block_flow, session_id) ==
    /\ call = Idle
    /\ call' = [tool |-> "notify_human_support", reason |-> reason,
                customer_context |-> customer_context,
                customer_name |-> customer_name, customer_phone |-> customer_phone,
                should_block_flow |-> should_block_flow, session_id |-> session_id]
    /\ LET reason_lower == StrLower(OrEmpty(reason))
           ctx == StrLower(OrEmpty(customer_context))
           support_message == FormatSupportMessage(reason, customer_context,
                                                   customer_name, customer_phone)
       IN  IF /\ \E k \in FinalizationKeys : StrContains(reason_lower, k)
              /\ missing(ctx) # << >>
           THEN /\ result' = [kind |-> "structured",
                              data |-> [status |-> "error",
                                        error |-> "incomplete_context",
                                        missing |-> missing(ctx)],
                              message |-> [template |-> "Contexto incompleto",
                                           missing |-> missing(ctx)]]
                /\ outbound' = << >>
                /\ UNCHANGED <<AIAgentSession, db_pool>>
           ELSE \E sent \in SendWhatsappNotification(support_message,
                                                      EVOLUTION_API_CONFIG) :
                   /\ outbound' = sent.posts
                   /\ IF should_block_flow /\ SessionIdGiven(session_id)
                      THEN \E failure \in FailurePoints(db_pool, dbUp) :
                              LET r == InternalBlockSession(session_id, AIAgentSession,
                                                            id_type, clock, failure)
                              IN  /\ result' = IF r.result.kind = "exception"
                                               THEN r.result
                                               ELSE NotifiedAndClosedText
                                  /\ AIAgentSession' = r.table
                                  /\ db_pool' = IF failure = "create_pool"
                                                THEN db_pool ELSE "pool"
                      ELSE /\ result' = NotifiedText
                           /\ UNCHANGED <<AIAgentSession, db_pool>>
    /\ UNCHANGED <<clock, Holiday, dbUp, holiday_lookups, id_type, EVOLUTION_API_CONFIG>>
    /\ UNCHANGED memoryVars
    /\ UNCHANGED <<answered, http>>
    /\ UNCHANGED taskVars

(***************************************************************************)
(* get_active_holidays                                                     *)
(***************************************************************************)
\* the orders in which ORDER BY start_date ASC may return a set of rows
OrderedByStartDate(rows) ==
    {q \in [1..Cardinality(rows) -> rows] :
        /\ \A i, j \in DOMAIN q : i # j => q[i] # q[j]
        /\ \A i, j \in DOMAIN q : i < j => q[i].start_date <= q[j].start_date}

\* get_active_holidays() as one step; the closure_type and duration_hours
\* columns, which only shape the sentence, are left out
get_active_holidays ==
    /\ call = Idle
    /\ call' = [tool |-> "get_active_holidays"]
    /\ \E failure \in FailurePoints(db_pool, dbUp) :
          /\ db_pool' = IF failure = "create_pool" THEN db_pool ELSE "pool"
          /\ IF failure # "none" THEN result' = Raised(failure)
             ELSE LET rows == {r \in Holiday :
                                  r.is_active /\ r.start_date >= clock.date - 1}
                  IN  IF rows = {}
                      THEN result' = [kind |-> "structured",
                                      data |-> [status |-> "no_holidays"],
                                      message |-> [template |-> "Nenhum feriado"]]
                      ELSE \E q \in OrderedByStartDate(rows) :
                              LET holidays ==
                                      [i \in DOMAIN q |->
                                          [name |-> q[i].name,
                                           start_date |-> FormatDate(q[i].start_date),
                                           end_date |-> FormatDate(q[i].end_date)]]
                              IN  result' = [kind |-> "structured",
                                             data |-> [status |-> "found",
                                                       holidays |-> holidays],
                                             message |-> [template |-> "Datas com loja fechada",
                                                          holidays |-> holidays]]
    /\ outbound' = << >>
    /\ UNCHANGED <<clock, Holiday, dbUp, holiday_lookups>>
    /\ UNCHANGED <<AIAgentSession, id_type, EVOLUTION_API_CONFIG>>
    /\ UNCHANGED memoryVars
    /\ UNCHANGED <<answered, http>>
    /\ UNCHANGED taskVars

(***************************************************************************)
(* The support specification: the tools that hand the conversation over   *)
(* to a person, called one after the other.                                *)
(***************************************************************************)
\* reason arguments
Reasons ==
    {Str(<<"F", "i", "n", "a", "l", "i", "z", "a", "r", " ", "p", "e", "d", "i", "d",
           "o">>),
     Str(<<"D", "ú", "v", "i", "d", "a", " ", "d", "e", " ", "f", "r", "e", "t", "e">>),
     Str(<<"P", "r", "o", "d", "u", "t", "o", " ", "i", "n", "d", "i", "s", "p", "o",
           "n", "í", "v", "e", "l">>),
     Str(<<"P", "a", "g", "a", "m", "e", "n", "t", "o", " ", "c", "o", "n", "f", "i",
           "r", "m", "a", "d", "o">>),
     Str(<<"F", "R", "E", "T", "E", " ", "d", "a", " ", "c", "o", "m", "p", "r", "a">>),
     Str(<<"D", "U", "V", "I", "D", "A", " ", "n", "o", " ", "c", "a", "r", "t", "ã",
           "o">>)}

\* customer_context arguments
Contexts ==
    {NoneStr,
     Str(<<"c", "e", "s", "t", "a", ",", " ", "e", "n", "t", "r", "e", "g", "a", ",",
           " ", "e", "n", "d", "e", "r", "e", "ç", "o", ",", " ", "p", "a",
           "g", "a", "m", "e", "n", "t", "o">>),
     Str(<<"C", "E", "S", "T", "A", ":", " ", "A", "m", "o", "r", ".", " ", "E", "N",
           "D", "E", "R", "E", "Ç", "O", ":", " ", "R", "u", "a", " ", "A",
           ",", " ", "1">>),
     Str(<<"n", "o", "n", "e">>)}

\* customer_name and customer_phone arguments
CustomerNames == {Str(<<"A", "n", "a">>), Str(<< >>)}

CustomerPhones == {Str(<<"5", "5", "8", "3", "9", "1", "1", "1", "1">>), Str(<< >>)}

\* the session rows another service created
SessionRows(column_type) ==
    {[id |-> i, is_blocked |-> FALSE, expires_at |-> Combine(FirstDate, T(12, 0))] :
        i \in IF column_type = "uuid" THEN {"0b9f6c1e-6d1c-4a7e-9b65-1f2d3c4b5a69"}
              ELSE {"0b9f6c1e-6d1c-4a7e-9b65-1f2d3c4b5a69", "5583911110000"}}

BlockSession == \E session_id \in SessionIds : block_session(session_id)

NotifyHumanSupport ==
    \E reason \in Reasons, customer_context \in Contexts,
       customer_name \in CustomerNames, customer_phone \in CustomerPhones,
       should_block_flow \in BOOLEAN, session_id \in SessionIds \cup {NoSessionId, ""} :
        notify_human_support(reason, customer_context, customer_name, customer_phone,
                             should_block_flow, session_id)

InitSupport ==
    /\ clock = Combine(FirstDate, Time(9, 0, 0, 0))
    /\ Holiday = {}
    /\ dbUp = TRUE
    /\ call = Idle
    /\ result = NoResult
    /\ holiday_lookups = 0
    /\ db_pool = "None"
    /\ CustomerMemory = {}
    /\ procs = [p \in Procs |-> NotInvoked]
    /\ applied = << >>
    /\ id_type \in {"text", "uuid"}
    /\ AIAgentSession = SessionRows(id_type)
    /\ outbound = << >>
    /\ EVOLUTION_API_CONFIG \in {"set", "missing"}
    /\ answered = NoAnswer
    /\ http = NoRequest
    /\ scan = NoScan
    /\ tasks = NoTasks
    /\ pools = NoPools

NextSupport ==
    \/ BlockSession
    \/ NotifyHumanSupport
    \/ ReturnToAgent

\* support specification: block_session and notify_human_support on every
\* argument, the store reachable
SpecSupport == InitSupport /\ [][NextSupport]_vars

(***************************************************************************)
(* The outage specification: every tool that reaches the store, called one *)
(* after the other, while the store becomes unreachable and reachable      *)
(* again between the calls.                                                *)
(***************************************************************************)
\* one slot of save_customer_summary, one call at a time
SaveCustomerSummary ==
    \/ /\ call = Idle
       /\ \E customer_phone \in Phones, summary \in Summaries :
             SaveStart(1, customer_phone, summary)
    \/ SaveAcquire(1)
    \/ SaveQuery(1)

ValidateOutage ==
    \E date_str \in {d \in DateStrs : d.kind = "text" \/ d.d \in {1, 2}},
       time_str \in {NoTime, HM(10, 0)} :
        validate_delivery_availability(date_str, time_str)

NotifyAndBlock ==
    \E session_id \in SessionIds :
        notify_human_support(Str(<<"A", "j", "u", "d", "a">>), NoneStr,
                             Str(<<"A", "n", "a">>), Str(<< >>), TRUE, session_id)

\* the store becomes unreachable, or reachable again, between two calls
Outage ==
    /\ call = Idle
    /\ dbUp' = ~dbUp
    /\ UNCHANGED <<clock, Holiday, call, result, holiday_lookups, db_pool>>
    /\ UNCHANGED storeVars
    /\ UNCHANGED <<answered, http>>
    /\ UNCHANGED taskVars

InitOutage ==
    /\ clock = Combine(FirstDate, Time(9, 0, 0, 0))
    /\ Holiday \in {{}, {[name |-> HolidayName(0), start_date |-> FirstDate + 3,
                          end_date |-> FirstDate + 3, is_active |-> TRUE]}}
    /\ dbUp = TRUE
    /\ call = Idle
    /\ result = NoResult
    /\ holiday_lookups = 0
    /\ db_pool = "None"
    /\ CustomerMemory = {}
    /\ procs = [p \in Procs |-> NotInvoked]
    /\ applied = << >>
    /\ id_type \in {"text", "uuid"}
    /\ AIAgentSession = SessionRows(id_type)
    /\ outbound = << >>
    /\ EVOLUTION_API_CONFIG = "set"
    /\ answered = NoAnswer
    /\ http = NoRequest
    /\ scan = NoScan
    /\ tasks = NoTasks
    /\ pools = NoPools

NextOutage ==
    \/ BlockSession
    \/ NotifyAndBlock
    \/ get_active_holidays
    \/ SaveCustomerSummary
    \/ ValidateOutage
    \/ Outage
    \/ StoreTick
    \/ ReturnToAgent

SpecOutage == InitOutage /\ [][NextOutage]_vars

(***************************************************************************)
(* The conversation specification: the agent asks about dates again and    *)
(* again while staff edit the Holiday table between its calls.             *)
(***************************************************************************)
\* the agent keeps the answer in the conversation
NoteAnswer ==
    /\ call.tool = "validate_delivery_availability"
    /\ result.kind = "structured"
    /\ answered' = [date_str |-> call.date_str,
                    holiday |-> /\ result.data.status = "unavailable"
                                /\ result.data.reason = "holiday"]
    /\ answered' # answered
    /\ UNCHANGED <<clock, Holiday, dbUp, call, result, holiday_lookups, db_pool>>
    /\ UNCHANGED storeVars
    /\ UNCHANGED http
    /\ UNCHANGED taskVars

ValidateAgain ==
    \E date_str \in GoodDateStrs, time_str \in {NoTime, HM(10, 0)} :
        validate_delivery_availability(date_str, time_str)

InitConversation ==
    /\ clock = Combine(FirstDate, Time(9, 0, 0, 0))
    /\ Holiday = {}
    /\ dbUp = TRUE
    /\ call = Idle
    /\ result = NoResult
    /\ holiday_lookups = 0
    /\ ServerStarted

NextConversation ==
    \/ ValidateAgain
    \/ NoteAnswer
    \/ ReturnToAgent
    \/ AddHoliday
    \/ SetHolidayActive
    \/ RemoveHoliday

SpecConversation == InitConversation /\ [][NextConversation]_vars

(***************************************************************************)
(* POST /call                                                              *)
(*                                                                         *)
(* The body of a request is a JSON object: a function from its keys to     *)
(* JSON values, of which the handler tells objects (dict) from everything  *)
(* else.  The handler runs up to the await of the tool function (Receive), *)
(* the tool runs, and the handler builds the response (Respond).  http     *)
(* holds the request being served, the keyword arguments the tool function *)
(* is called with and, once served, the response.                          *)
(***************************************************************************)
\* a JSON object
Dict(items) == [t |-> "dict", items |-> items]

\* a JSON value that is no object
Scalar(v) == [t |-> "scalar", v |-> v]

\* isinstance(v, dict)
IsDict(v) == v.t = "dict"

\* the X-API-Key header: absent, not the configured key, the configured key
ApiKeys == {"missing", "wrong", "MCP_API_KEY"}

\* the FastAPI dependency of /call: the status it raises, 200 when it passes
verify_api_key(x_api_key) ==
    IF x_api_key = "missing" THEN 401
    ELSE IF x_api_key # "MCP_API_KEY" THEN 403
    ELSE 200

\* the metadata keys of the root-level format
known_keys ==
    {"tool", "toolCallId", "sessionId", "action", "chatInput", "message",
     "chatId", "pushName", "messages", "messageId", "timestamp", "metadata",
     "input", "arguments"}

\* the keys of the requests that start with an underscore
UnderscoreKeys == {"_trace"}

\* k.startswith("_")
StartsWithUnderscore(k) == k \in UnderscoreKeys

\* mcp._tool_manager._tools, the tools of this model: the parameters of the
\* function of each, those without a default value apart
ToolSignatures ==
    [calculate_freight |->
         [required |-> {"city", "payment_method"}, optional |-> {}],
     validate_delivery_availability |->
         [required |-> {"date_str"}, optional |-> {"time_str"}],
     get_active_holidays |->
         [required |-> {}, optional |-> {}]]

\* tool_name in mcp._tool_manager._tools
RegisteredTools == DOMAIN ToolSignatures

\* set(inspect.signature(tool_func).parameters.keys())
allowed_params(tool_name) ==
    ToolSignatures[tool_name].required \cup ToolSignatures[tool_name].optional

\* the function f restricted to the keys in keys
Restrict(f, keys) == [k \in (DOMAIN f) \cap keys |-> f[k]]

\* every argument kept, whatever the function declares
FilterArguments_KeepAll(arguments, tool_name) ==
    arguments

\* filtered_args: the arguments the function declares
FilterArguments(arguments, tool_name) ==
    Restrict(arguments, allowed_params(tool_name))

\* the normalisation of the body: "input", else "arguments", else the root
\* level without the metadata
NormaliseArguments(data) ==
    IF "input" \in DOMAIN data /\ IsDict(data["input"])
    THEN data["input"].items
    ELSE IF "arguments" \in DOMAIN data /\ IsDict(data["arguments"])
    THEN data["arguments"].items
    ELSE Restrict(data, {k \in DOMAIN data :
                            k \notin known_keys /\ ~StartsWithUnderscore(k)})

\* the response of the handler to an exception that is no HTTPException
ErrorResponse(error_type, tool_name) ==
    [status |-> IF error_type = "ValueError" THEN 400 ELSE 500,
     success |-> FALSE, error_type |-> error_type, tool |-> tool_name]

\* the response FastAPI builds from an HTTPException
HttpExceptionResponse(status_code) == [status |-> status_code]

\* the handler up to the call of the tool function: the response when it
\* stops before the call, else the keyword arguments of the call
CallTool(request) ==
    LET data == request.data
        tool_name == IF "tool" \in DOMAIN data THEN data["tool"].v ELSE ""
        arguments == NormaliseArguments(data)
    IN  IF verify_api_key(request.x_api_key) # 200
        THEN [stage |-> "responded", request |-> request,
              response |-> HttpExceptionResponse(verify_api_key(request.x_api_key))]
        ELSE IF tool_name = ""
        THEN [stage |-> "responded", request |-> request,
              response |-> HttpExceptionResponse(400)]
        ELSE IF tool_name \notin RegisteredTools
        THEN [stage |-> "responded", request |-> request,
              response |-> ErrorResponse("ValueError", tool_name)]
        ELSE LET filtered_args == FilterArguments(arguments, tool_name)
             IN  IF ~(ToolSignatures[tool_name].required \subseteq DOMAIN filtered_args)
                    \/ ~(DOMAIN filtered_args \subseteq allowed_params(tool_name))
                 THEN [stage |-> "responded", request |-> request,
                       response |-> ErrorResponse("TypeError", tool_name)]
                 ELSE [stage |-> "dispatch", request |-> request,
                       tool |-> tool_name, filtered_args |-> filtered_args]

\* a request arrives and the handler runs up to the await of the tool function
Receive(request) ==
    /\ call = Idle
    /\ http = NoRequest
    /\ http' = CallTool(request)
    /\ UNCHANGED <<clock, Holiday, dbUp, call, result, holiday_lookups, db_pool>>
    /\ UNCHANGED storeVars
    /\ UNCHANGED answered
    /\ UNCHANGED taskVars

\* await tool_func(**filtered_args)
Dispatch ==
    /\ http.stage = "dispatch"
    /\ LET kw == http.filtered_args
       IN  \/ /\ http.tool = "calculate_freight"
              /\ calculate_freight(kw["city"].v, kw["payment_method"].v)
           \/ /\ http.tool = "validate_delivery_availability"
              /\ validate_delivery_availability(
                     kw["date_str"].v,
                     IF "time_str" \in DOMAIN kw THEN kw["time_str"].v ELSE NoTime)
           \/ /\ http.tool = "get_active_holidays"
              /\ get_active_holidays

\* the tool function has returned or raised: the handler answers
Respond ==
    /\ http.stage = "dispatch"
    /\ call # Idle
    /\ http' = [stage |-> "responded", request |-> http.request,
                tool |-> http.tool, filtered_args |-> http.filtered_args,
                response |->
                    IF result.kind = "exception"
                    THEN ErrorResponse(result.error, http.tool)
                    ELSE [status |-> 200, success |-> TRUE, tool |-> http.tool,
                          result |-> result]]
    /\ call' = Idle
    /\ result' = NoResult
    /\ holiday_lookups' = 0
    /\ outbound' = << >>
    /\ UNCHANGED <<clock, Holiday, dbUp, db_pool>>
    /\ UNCHANGED <<AIAgentSession, id_type, EVOLUTION_API_CONFIG>>
    /\ UNCHANGED memoryVars
    /\ UNCHANGED answered
    /\ UNCHANGED taskVars

\* the client has the response; the server waits for the next request
ReturnToClient ==
    /\ http.stage = "responded"
    /\ http' = NoRequest
    /\ UNCHANGED <<clock, Holiday, dbUp, call, result, holiday_lookups, db_pool>>
    /\ UNCHANGED storeVars
    /\ UNCHANGED answered
    /\ UNCHANGED taskVars

\* the keys a client puts next to the arguments: metadata of the runtime, a
\* key with an underscore, and a key that is neither
ExtraKeys == {"sessionId", "chatInput", "_trace", "customer_note"}

\* the parameters of the tools of this model
ParamKeys == {"city", "payment_method", "date_str", "time_str"}

\* NumProfiles sets of values for the keys of a request
NumProfiles == 2

\* the value of key k in profile v
ArgValue(k, v) ==
    CASE k = "city" ->
             Scalar(IF v = 1 THEN Str(<<"C", "a", "m", "p", "i", "n", "a", " ",
                                       "G", "r", "a", "n", "d", "e">>)
                    ELSE Str(<<"P", "a", "t", "o", "s">>))
      [] k = "payment_method" ->
             Scalar(IF v = 1 THEN Str(<<"p", "i", "x">>)
                    ELSE Str(<<"b", "o", "l", "e", "t", "o">>))
      [] k = "date_str" ->
             Scalar(IF v = 1 THEN FormatDate(FirstDate + 3)
                    ELSE [kind |-> "text", y |-> 0, m |-> 0, d |-> 0])
      [] k = "time_str" -> Scalar(IF v = 1 THEN HM(10, 0) ELSE HM(23, 0))
      [] OTHER -> Scalar(k)

\* the arguments object with the keys in keys
ArgsObject(keys, v) == [k \in keys |-> ArgValue(k, v)]

\* the tool names of the requests: the registered tools, the tool the
\* verification script asks for, and none
RequestTools == RegisteredTools \cup {"get_service_guideline", ""}

\* the three formats of the body, and bodies that carry two of them
Formats == {"input", "arguments", "root", "input and arguments",
            "text input and arguments"}

\* the body of a request
Body(tool_name, format, keys, v) ==
    LET args == ArgsObject(keys, v)
        full == ArgsObject(ParamKeys, 1)
        head == IF tool_name = "" THEN {} ELSE {"tool"}
        named(extra, f) ==
            [k \in head \cup extra |->
                IF k = "tool" THEN Scalar(tool_name) ELSE f[k]]
    IN  CASE format = "input" ->
                 named({"input", "sessionId"},
                       [input |-> Dict(args), sessionId |-> Scalar("sessionId")])
          [] format = "arguments" ->
                 named({"arguments"}, [arguments |-> Dict(args)])
          [] format = "root" ->
                 named(keys, args)
          [] format = "input and arguments" ->
                 named({"input", "arguments"},
                       [input |-> Dict(args), arguments |-> Dict(full)])
          [] format = "text input and arguments" ->
                 named({"input", "arguments"},
                       [input |-> Scalar("input"), arguments |-> Dict(args)])

Requests ==
    {[x_api_key |-> key, data |-> Body(tool_name, format, params \cup extras, v)] :
        key \in ApiKeys, tool_name \in RequestTools, format \in Formats,
        params \in SUBSET ParamKeys, extras \in {{}, {"customer_note"}, ExtraKeys},
        v \in 1..NumProfiles}

Call == \E request \in Requests : Receive(request)

InitHttp ==
    /\ clock = Combine(FirstDate, Time(9, 0, 0, 0))
    /\ Holiday = {[name |-> HolidayName(0), start_date |-> FirstDate + 3,
                   end_date |-> FirstDate + 3, is_active |-> TRUE]}
    /\ dbUp = TRUE
    /\ call = Idle
    /\ result = NoResult
    /\ holiday_lookups = 0
    /\ ServerStarted

NextHttp ==
    \/ Call
    \/ Dispatch
    \/ Respond
    \/ ReturnToClient
    \/ Outage

\* HTTP specification: requests to POST /call in every format, with and
\* without the API key, with the store reachable or not
SpecHttp == InitHttp /\ [][NextHttp]_vars

(***************************************************************************)
(* get_next_available, one candidate at a time                             *)
(*                                                                         *)
(* The scan is a coroutine that awaits one holiday lookup per candidate.   *)
(* scan holds its position: the starting date current_date, the candidate  *)
(* next_d, the number of lookups made and, once it has returned, the day   *)
(* it returns.  The Holiday table stays as it is while a scan runs.        *)
(***************************************************************************)
\* the candidate has hours whatever the Holiday table holds
CandidateOpen_HoursOnly(table, next_d) ==
    BUSINESS_HOURS[Weekday(next_d)] # << >>

\* "if hours and not holiday_check"
CandidateOpen(table, next_d) ==
    BUSINESS_HOURS[Weekday(next_d)] # << >> /\ ~is_holiday(table, next_d)

\* next_d = current_date + timedelta(days=1)
ScanStart(current_date) ==
    /\ scan.pc = "idle"
    /\ scan' = [pc |-> "scanning", current_date |-> current_date,
                next_d |-> current_date + 1, scanned |-> 0]
    /\ UNCHANGED <<clock, Holiday, dbUp, call, result, holiday_lookups, db_pool>>
    /\ UNCHANGED storeVars
    /\ UNCHANGED <<answered, http, tasks, pools>>

\* one turn of "while True": the lookup for next_d, then the return or the
\* next candidate
ScanStep ==
    /\ scan.pc = "scanning"
    /\ scan' = IF CandidateOpen(Holiday, scan.next_d)
               THEN [pc |-> "returned", current_date |-> scan.current_date,
                     next_d |-> scan.next_d, scanned |-> scan.scanned + 1,
                     day_name |-> day_names[Weekday(scan.next_d)],
                     hours |-> BUSINESS_HOURS[Weekday(scan.next_d)]]
               ELSE [scan EXCEPT !.next_d = @ + 1, !.scanned = @ + 1]
    /\ UNCHANGED <<clock, Holiday, dbUp, call, result, holiday_lookups, db_pool>>
    /\ UNCHANGED storeVars
    /\ UNCHANGED <<answered, http, tasks, pools>>

\* the longest closure of the scan specification, in days
MaxClosureDays == 9

\* the Holiday tables of the scan specification: up to two closures that
\* start in the days after FirstDate and last up to MaxClosureDays days
ScanRows ==
    {[name |-> HolidayName(0), start_date |-> s, end_date |-> s + n - 1,
      is_active |-> a] :
        s \in (FirstDate + 1)..(FirstDate + 3), n \in 1..MaxClosureDays,
        a \in BOOLEAN}

ScanTables ==
    {{}} \cup {{r} : r \in ScanRows}
    \cup {{r, q} : r \in {x \in ScanRows : x.is_active /\ x.start_date = FirstDate + 1},
                   q \in {x \in ScanRows : x.is_active /\ x.start_date = FirstDate + 3}}

Scan == \E current_date \in Dates : ScanStart(current_date)

InitScan ==
    /\ clock = Combine(FirstDate, Time(9, 0, 0, 0))
    /\ Holiday \in ScanTables
    /\ dbUp = TRUE
    /\ call = Idle
    /\ result = NoResult
    /\ holiday_lookups = 0
    /\ ServerStarted

NextScan ==
    \/ Scan
    \/ ScanStep

\* scan specification: the scan from every date of the window over closures
\* of every length; a running scan is always given its next turn
SpecScan == InitScan /\ [][NextScan]_vars /\ WF_vars(ScanStep)

(***************************************************************************)
(* The connection pool under concurrent invocations                        *)
(*                                                                         *)
(* tasks[t] is an invocation of a tool that uses the store: its position   *)
(* pc (idle, creating: inside "await asyncpg.create_pool", acquiring:      *)
(* inside "await pool.acquire()", holding: inside the query of the         *)
(* "async with" block, returned), the pool it got from get_db_pool, the    *)
(* connections it holds, the queries it has still to make and how it       *)
(* ended.  pools[j] is the j-th pool that was created; db_pool is the last *)
(* one assigned, that is pools[Len(pools)].  Leaving the "async with"      *)
(* block releases the connection before the invocation goes on.            *)
(***************************************************************************)
\* max_size of asyncpg.create_pool
max_size == 10

\* the pool get_db_pool returns when db_pool is not None
CurrentPool == Len(pools)

\* pool = await get_db_pool(), the first statement of the invocation: with
\* db_pool None the invocation waits inside create_pool, else it has db_pool
\* and goes on to pool.acquire(); queries is the number of queries it makes,
\* one connection after the other (validate_delivery_availability makes one
\* holiday lookup per date it examines)
TaskStart(t, queries) ==
    /\ tasks[t].pc = "idle"
    /\ tasks' = [tasks EXCEPT ![t] =
                    IF db_pool = "None"
                    THEN [pc |-> "creating", pool |-> 0, conns |-> 0,
                          left |-> queries, outcome |-> "running"]
                    ELSE [pc |-> "acquiring", pool |-> CurrentPool, conns |-> 0,
                          left |-> queries, outcome |-> "running"]]
    /\ UNCHANGED <<clock, Holiday, dbUp, call, result, holiday_lookups, db_pool>>
    /\ UNCHANGED storeVars
    /\ UNCHANGED <<answered, http, scan, pools>>

\* asyncpg.create_pool returns and the invocation assigns db_pool, or it
\* raises and the exception leaves the invocation
TaskCreated(t) ==
    /\ tasks[t].pc = "creating"
    /\ IF dbUp
       THEN /\ pools' = Append(pools, [in_use |-> 0])
            /\ db_pool' = "pool"
            /\ tasks' = [tasks EXCEPT ![t].pc = "acquiring",
                                      ![t].pool = Len(pools) + 1]
       ELSE /\ tasks' = [tasks EXCEPT ![t].pc = "returned",
                                      ![t].outcome = "raised"]
            /\ UNCHANGED <<pools, db_pool>>
    /\ UNCHANGED <<clock, Holiday, dbUp, call, result, holiday_lookups>>
    /\ UNCHANGED storeVars
    /\ UNCHANGED <<answered, http, scan>>

\* pool.acquire() returns a connection of the invocation's pool when that
\* pool has one to give, or raises when the store cannot be reached
TaskAcquire(t) ==
    /\ tasks[t].pc = "acquiring"
    /\ IF dbUp
       THEN /\ pools[tasks[t].pool].in_use < max_size
            /\ pools' = [pools EXCEPT ![tasks[t].pool].in_use = @ + 1]
            /\ tasks' = [tasks EXCEPT ![t].pc = "holding", ![t].conns = @ + 1]
       ELSE /\ tasks' = [tasks EXCEPT ![t].pc = "returned",
                                      ![t].outcome = "raised"]
            /\ UNCHANGED pools
    /\ UNCHANGED <<clock, Holiday, dbUp, call, result, holiday_lookups, db_pool>>
    /\ UNCHANGED storeVars
    /\ UNCHANGED <<answered, http, scan>>

\* the query inside the "async with" block returns or raises, and the block
\* is left: the connection goes back to its pool; the invocation then
\* returns, or asks get_db_pool again for its next query
TaskQuery(t) ==
    /\ tasks[t].pc = "holding"
    /\ pools' = [pools EXCEPT ![tasks[t].pool].in_use = @ - 1]
    /\ tasks' = [tasks EXCEPT ![t] =
                    IF ~dbUp
                    THEN [@ EXCEPT !.pc = "returned", !.conns = @ - 1,
                                   !.outcome = "failed"]
                    ELSE IF @.left > 1
                    THEN [@ EXCEPT !.pc = "acquiring", !.conns = @ - 1,
                                   !.left = @ - 1, !.pool = CurrentPool]
                    ELSE [@ EXCEPT !.pc = "returned", !.conns = @ - 1,
                                   !.left = 0, !.outcome = "done"]]
    /\ UNCHANGED <<clock, Holiday, dbUp, call, result, holiday_lookups, db_pool>>
    /\ UNCHANGED storeVars
    /\ UNCHANGED <<answered, http, scan>>

\* the queries of one invocation: one for most tools, more for a validation
\* that looks for the next available day
MaxQueries == 2

InvocationStarts ==
    \E t \in DOMAIN tasks, queries \in 1..MaxQueries : TaskStart(t, queries)

PoolCreated == \E t \in DOMAIN tasks : TaskCreated(t)

ConnectionAcquired == \E t \in DOMAIN tasks : TaskAcquire(t)

QueryEnds == \E t \in DOMAIN tasks : TaskQuery(t)

InitPool ==
    /\ clock = Combine(FirstDate, Time(9, 0, 0, 0))
    /\ Holiday = {}
    /\ dbUp = TRUE
    /\ call = Idle
    /\ result = NoResult
    /\ holiday_lookups = 0
    /\ ServerStarted

NextPool ==
    \/ InvocationStarts
    \/ PoolCreated
    \/ ConnectionAcquired
    \/ QueryEnds
    \/ Outage

\* pool specification: MaxTasks invocations interleaved at every await, the
\* store reachable or not
SpecPool == InitPool /\ [][NextPool]_vars

\* how far an invocation has got
Rank(pc) ==
    CASE pc = "idle" -> 0
      [] pc = "creating" -> 1
      [] pc = "acquiring" -> 2
      [] pc = "holding" -> 3
      [] pc = "returned" -> 4

\* the event loop resumes the invocations in the order they arrived: none
\* gets ahead of one that arrived before it
ArrivalOrderKept ==
    \A t \in DOMAIN tasks' : t > 1 => Rank(tasks'[t - 1].pc) >= Rank(tasks'[t].pc)

\* one more invocation than a pool has connections
LoadTasks == 1..(max_size + 1)

InitLoad ==
    /\ clock = Combine(FirstDate, Time(9, 0, 0, 0))
    /\ Holiday = {}
    /\ dbUp = TRUE
    /\ call = Idle
    /\ result = NoResult
    /\ holiday_lookups = 0
    /\ db_pool = "None"
    /\ CustomerMemory = {}
    /\ procs = [p \in Procs |-> NotInvoked]
    /\ applied = << >>
    /\ AIAgentSession = {}
    /\ id_type = "text"
    /\ outbound = << >>
    /\ EVOLUTION_API_CONFIG = "set"
    /\ answered = NoAnswer
    /\ http = NoRequest
    /\ scan = NoScan
    /\ tasks = [t \in LoadTasks |-> NotStarted]
    /\ pools = NoPools

NextLoad ==
    \/ (\E t \in DOMAIN tasks : TaskStart(t, 1)) /\ ArrivalOrderKept
    \/ PoolCreated /\ ArrivalOrderKept
    \/ ConnectionAcquired /\ ArrivalOrderKept
    \/ QueryEnds /\ ArrivalOrderKept

\* load specification: max_size + 1 invocations that arrive together and are
\* resumed in arrival order, the store reachable
SpecLoad == InitLoad /\ [][NextLoad]_vars

(***************************************************************************)
(* Properties                                                              *)
(*                                                                         *)
(* Only SpecOutage and SpecHttp let the store become unreachable; in the  *)
(* other specifications dbUp stays TRUE.  The                             *)
(* outcome names of the design document stand for the reason texts of the *)
(* code: closed_weekly is "closed", closed_holiday is "holiday", the      *)
(* invalid_format failure is the sentence "Erro no formato da data" and   *)
(* the invalid_time_format failure the sentence "Formato de hora          *)
(* inválido".                                                             *)
(***************************************************************************)
IsValidateCall == call.tool = "validate_delivery_availability"

\* the date a well-formed date_str of the window names
RequestedDate == ToOrdinal(call.date_str.y, call.date_str.m, call.date_str.d)

\* FirstDate + 2 is Sunday 2026-02-01
IsSunday(d) == (d - (FirstDate + 2)) % 7 = 0

\* some active closure of the table has start_date <= d <= end_date
Covered(d) ==
    \E r \in Holiday : r.is_active /\ r.start_date <= d /\ d <= r.end_date

\* the static windows of the weekday of d, as (open, close) in minutes of the day
StaticWindows(d) ==
    IF IsSunday(d) THEN {}
    ELSE IF IsSunday(d + 1) THEN {<<8 * 60, 11 * 60>>}
    ELSE {<<7 * 60 + 30, 12 * 60>>, <<14 * 60, 17 * 60>>}

HasReason(reason) ==
    /\ result.kind = "structured"
    /\ result.data.status = "unavailable"
    /\ result.data.reason = reason

IsAvailable == result.kind = "structured" /\ result.data.status = "available"

\* C1: a request for a Sunday is answered unavailable with the weekly-closure
\* reason, whatever the time argument (absent, empty, well-formed, malformed),
\* the Holiday table and the clock are
C1_SundayClosedWeekly ==
    (IsValidateCall /\ call.date_str \in GoodDateStrs /\ IsSunday(RequestedDate))
        => HasReason("closed")

\* C1 witness: a Sunday inside an active closure, asked with a malformed time
C1_Witness ==
    /\ IsValidateCall /\ call.date_str \in GoodDateStrs
    /\ IsSunday(RequestedDate) /\ Covered(RequestedDate)
    /\ call.time_str \in BadTimeStrs
    /\ HasReason("closed")

\* C2 as stated: every requested date inside an active closure, bounds
\* included, is answered with the holiday reason, for every time argument
C2_Original ==
    (IsValidateCall /\ call.date_str \in GoodDateStrs /\ Covered(RequestedDate))
        => HasReason("holiday")

\* C2 amended: a requested date inside an active closure, bounds included, is
\* never answered available; it is answered with the holiday reason and the
\* name of a closure covering it when it is not a Sunday, and with the
\* weekly-closure reason when it is a Sunday
C2_HolidayClosed ==
    (IsValidateCall /\ call.date_str \in GoodDateStrs /\ Covered(RequestedDate))
        => /\ ~IsAvailable
           /\ IF IsSunday(RequestedDate) THEN HasReason("closed")
              ELSE /\ HasReason("holiday")
                   /\ \E r \in Holiday :
                         /\ r.is_active /\ r.start_date <= RequestedDate
                         /\ RequestedDate <= r.end_date
                         /\ result.data.holiday_name = r.name

\* C2 witness: the requested date is the last day of a closure of several
\* days and a well-formed time inside the day's windows is asked
C2_Witness ==
    /\ IsValidateCall /\ call.date_str \in GoodDateStrs
    /\ \E r \in Holiday : /\ r.is_active /\ r.start_date < r.end_date
                          /\ r.end_date = RequestedDate
    /\ ~IsSunday(RequestedDate)
    /\ call.time_str = HM(10, 0)
    /\ HasReason("holiday")

\* the time_str arguments that name a time of day
GoodTimeStrs == (CalendarTimeStrs \cup HoursTimeStrs) \ ({NoTime, EmptyTime} \cup BadTimeStrs)

\* the time argument is absent (None or the empty text)
TimeAbsent == call.time_str \in {NoTime, EmptyTime}

\* the requested day is open: not a Sunday and in no active closure
OpenDay(d) == ~IsSunday(d) /\ ~Covered(d)

\* a time string of the form HH:MM as minutes of the day
MinutesOf(hm) == hm.h * 60 + hm.m

\* the clock plus one hour, in seconds from the midnight that starts today
ReadySeconds == clock.time.sec + 3600

\* the clock plus one hour rounded up to the 30-minute grid, in minutes from
\* the midnight that starts today
ReadyOnGrid ==
    LET whole == IF clock.time.us > 0 THEN ReadySeconds + 1 ELSE ReadySeconds
    IN  ((whole + 1799) \div 1800) * 30

\* the request is for today, without a time, and is answered with slots
TodayNoTimeAvailable ==
    /\ IsValidateCall /\ call.date_str \in GoodDateStrs
    /\ RequestedDate = clock.date /\ TimeAbsent
    /\ IsAvailable

\* C3 as stated: for today without a time, no suggested slot is earlier than
\* the clock plus one hour rounded up to the 30-minute grid, and every slot lies
\* inside a static window of the day, for every clock value
C3_SlotsNotBeforeReady ==
    TodayNoTimeAvailable =>
        \A i \in 1..Len(result.data.suggested_slots) :
            LET slot == MinutesOf(result.data.suggested_slots[i])
            IN  /\ slot >= ReadyOnGrid
                /\ \E w \in StaticWindows(RequestedDate) : w[1] <= slot /\ slot <= w[2]

\* the request is for today, an open day, with a well-formed time inside a
\* static window and earlier than the clock plus one hour
TodayTimeTooSoon ==
    /\ IsValidateCall /\ call.date_str \in GoodDateStrs
    /\ RequestedDate = clock.date /\ OpenDay(RequestedDate)
    /\ call.time_str \in GoodTimeStrs
    /\ \E w \in StaticWindows(RequestedDate) :
          w[1] <= MinutesOf(call.time_str) /\ MinutesOf(call.time_str) <= w[2]
    /\ \/ MinutesOf(call.time_str) * 60 < ReadySeconds
       \/ MinutesOf(call.time_str) * 60 = ReadySeconds /\ clock.time.us > 0

\* C4 as stated: such a request is answered insufficient_production_time with
\* the clock plus one hour as the earliest ready time, for every clock value of
\* the day
C4_TooSoonRefused ==
    TodayTimeTooSoon =>
        /\ HasReason("insufficient_production_time")
        /\ MinutesOf(result.data.minimum_ready_time) = (ReadySeconds \div 60) % 1440

\* the request names an open day and a well-formed time strictly between the
\* close of window before and the open of window after
InGap(before, after) ==
    /\ IsValidateCall /\ call.date_str \in GoodDateStrs /\ OpenDay(RequestedDate)
    /\ call.time_str \in GoodTimeStrs
    /\ before \in StaticWindows(RequestedDate) /\ after \in StaticWindows(RequestedDate)
    /\ before[2] < MinutesOf(call.time_str) /\ MinutesOf(call.time_str) < after[1]

\* C5: on an open day a well-formed time strictly between the close of one
\* window and the open of the next is answered with reason interval, and the
\* answer names the start of the window after the gap
C5_GapIsInterval ==
    \A before, after \in {<<7 * 60 + 30, 12 * 60>>, <<14 * 60, 17 * 60>>} :
        InGap(before, after) =>
            /\ HasReason("interval")
            /\ MinutesOf(result.message.back_at) = after[1]

\* C5 witness: 13:00 asked for today while the clock itself is in the gap
C5_Witness ==
    /\ InGap(<<7 * 60 + 30, 12 * 60>>, <<14 * 60, 17 * 60>>)
    /\ call.time_str = HM(13, 0)
    /\ RequestedDate = clock.date /\ clock.time = Time(12, 30, 0, 0)
    /\ HasReason("interval")

IsUnavailable == result.kind = "structured" /\ result.data.status = "unavailable"

\* a list of blocks "HH:MM-HH:MM" as a set of (open, close) in minutes of the day
WindowsOf(hours) ==
    {<<MinutesOf(hours[i][1]), MinutesOf(hours[i][2])>> : i \in 1..Len(hours)}

\* a time of day can be booked for day d: the day is open, the time lies in one
\* of its static windows and, when d is today, is not before the clock plus
\* one hour; no time of a day before today can be booked
Bookable(d, hm) ==
    /\ OpenDay(d)
    /\ \E w \in StaticWindows(d) : w[1] <= MinutesOf(hm) /\ MinutesOf(hm) <= w[2]
    /\ d >= clock.date
    /\ d = clock.date =>
          \/ MinutesOf(hm) * 60 > ReadySeconds
          \/ MinutesOf(hm) * 60 = ReadySeconds /\ clock.time.us = 0

\* the answer names a later open day together with that day's static windows
OffersNextOpenDay ==
    /\ {"next_date", "hours"} \subseteq DOMAIN result.message
    /\ \E n \in (RequestedDate + 1)..(RequestedDate + MaxSpan + 8) :
          /\ OpenDay(n)
          /\ FormatDayMonth(n) = result.message.next_date
          /\ WindowsOf(result.message.hours) = StaticWindows(n)

\* the answer lists the static windows of the requested day, which is open
OffersRequestedDayHours ==
    /\ "current_day_hours" \in DOMAIN result.message
    /\ OpenDay(RequestedDate)
    /\ WindowsOf(result.message.current_day_hours) = StaticWindows(RequestedDate)

\* the answer proposes one time, and that time can be booked: the ready time
\* for today, or the opening time offered for tomorrow
OffersBookableTime ==
    \/ /\ "ready_at" \in DOMAIN result.message
       /\ Bookable(RequestedDate, result.message.ready_at)
    \/ /\ "tomorrow_at" \in DOMAIN result.message
       /\ Bookable(clock.date + 1, result.message.tomorrow_at)

\* C6 as stated: every unavailable answer carries an alternative the customer
\* can act on: a next open day with its hours, the hours of the open day asked
\* for, or a time that can be booked
C6_AlternativeOffered ==
    (IsValidateCall /\ IsUnavailable)
        => OffersNextOpenDay \/ OffersRequestedDayHours \/ OffersBookableTime

\* C7: an unavailable answer always carries a reason, and an available answer
\* for today without a time always carries the suggested_slots list
C7_ResultPopulated ==
    IsValidateCall =>
        /\ IsUnavailable =>
              /\ "reason" \in DOMAIN result.data
              /\ result.data.reason \in
                    {"closed", "holiday", "no_business_hours", "after_hours", "interval",
                     "outside_hours", "insufficient_production_time",
                     "after_hours_today", "no_slots_left_today"}
        /\ TodayNoTimeAvailable => "suggested_slots" \in DOMAIN result.data

\* C7 witness: today, no time, answered available with slots to choose from
C7_Witness ==
    /\ TodayNoTimeAvailable
    /\ "suggested_slots" \in DOMAIN result.data
    /\ Len(result.data.suggested_slots) > 0

\* the dates after the requested one among which the next open day is looked for
DatesAfterRequested == (RequestedDate + 1)..(RequestedDate + MaxSpan + 8)

\* C8: the next available date given with a closed-day or holiday answer is
\* the earliest date after the requested one that is neither a Sunday nor
\* inside an active closure, named with its weekday, and the hours given with
\* it are that weekday's static windows
C8_NextAvailableIsEarliestOpen ==
    (IsValidateCall /\ (HasReason("closed") \/ HasReason("holiday")))
        => \E n \in DatesAfterRequested :
              /\ OpenDay(n)
              /\ \A k \in (RequestedDate + 1)..(n - 1) : ~OpenDay(k)
              /\ DateParses(result.data.next_available_date)
              /\ ParseDate(result.data.next_available_date) = n
              /\ WindowsOf(result.data.next_available_hours) = StaticWindows(n)
              /\ result.data.next_available_day =
                    IF IsSunday(n + 1) THEN "sábado"
                    ELSE IF IsSunday(n - 1) THEN "segunda-feira"
                    ELSE IF IsSunday(n - 2) THEN "terça-feira"
                    ELSE IF IsSunday(n - 3) THEN "quarta-feira"
                    ELSE IF IsSunday(n - 4) THEN "quinta-feira"
                    ELSE "sexta-feira"

\* C8 witness: a Sunday asked without a time while the following Monday is
\* inside an active closure; the answer names the Tuesday
C8_Witness ==
    /\ IsValidateCall /\ call.date_str \in GoodDateStrs
    /\ IsSunday(RequestedDate) /\ call.time_str = NoTime
    /\ Covered(RequestedDate + 1) /\ OpenDay(RequestedDate + 2)
    /\ HasReason("closed")
    /\ ParseDate(result.data.next_available_date) = RequestedDate + 2

IsDateFormatFailure ==
    result.kind = "text" /\ result.message.template = "Erro no formato da data"

IsTimeFormatFailure ==
    result.kind = "text" /\ result.message.template = "Formato de hora inválido"

\* C9: a malformed date string is answered with the date-format failure
\* before any holiday query is issued; a malformed time string for an open day
\* is answered with the time-format failure; neither is ever answered available
\* and the failure carries no date or time put in place of the malformed one
C9_MalformedRejected ==
    IsValidateCall =>
        /\ call.date_str \in BadDateStrs =>
              /\ IsDateFormatFailure
              /\ holiday_lookups = 0
              /\ DOMAIN result = {"kind", "message"}
              /\ DOMAIN result.message = {"template"}
        /\ (/\ call.date_str \in GoodDateStrs /\ OpenDay(RequestedDate)
            /\ call.time_str \in BadTimeStrs) =>
              /\ IsTimeFormatFailure
              /\ DOMAIN result = {"kind", "message"}
              /\ DOMAIN result.message = {"template"}
        /\ (call.date_str \in BadDateStrs \/ call.time_str \in BadTimeStrs)
              => ~IsAvailable

\* C9 witness: a day number the month does not have, asked with a well-formed
\* time while the Holiday table holds an active closure
C9_Witness ==
    /\ IsValidateCall
    /\ call.date_str.kind = "ymd" /\ call.date_str \in BadDateStrs
    /\ call.date_str.m \in 1..12
    /\ call.time_str = HM(10, 0)
    /\ \E r \in Holiday : r.is_active
    /\ IsDateFormatFailure

IsFreightCall == call.tool = "calculate_freight"

\* the answer is the sentence with the fee, the amount in centavos
FeeIs(centavos) ==
    /\ result.kind = "text"
    /\ "fee" \in DOMAIN result.message
    /\ result.message.fee = centavos

\* C10: the local locality is priced 0.00 with pix and 10.00 with card, a
\* neighbouring locality 15.00 with pix, and an absent, empty or blank city is
\* answered with the error missing_city whatever the payment method is, a
\* missing one included
C10_FeeTable ==
    IsFreightCall =>
        /\ (call.city \in LocalCities /\ call.payment_method \in PixMethods) => FeeIs(0)
        /\ (call.city \in LocalCities /\ call.payment_method \in CardMethods)
              => FeeIs(1000)
        /\ (call.city \in NeighbourCities /\ call.payment_method \in PixMethods)
              => FeeIs(1500)
        /\ call.city \in BlankStrs =>
              /\ result.kind = "structured"
              /\ result.data = [status |-> "error", error |-> "missing_city"]

\* C10 witness: a blank city with no payment method, answered missing_city
C10_Witness ==
    /\ IsFreightCall
    /\ call.city = Str(<<" ", " ", " ">>)
    /\ call.payment_method = NoneStr
    /\ result.kind = "structured"
    /\ result.data.error = "missing_city"

\* the payment_method arguments that name neither pix nor a card
UnrecognisedMethods ==
    {Str(<<"d", "i", "n", "h", "e", "i", "r", "o">>),
     Str(<<"b", "o", "l", "e", "t", "o">>)}

IsFreightValidationError ==
    /\ result.kind = "structured"
    /\ result.data.status = "error"
    /\ "fee" \notin DOMAIN result.message

\* C11: for a city of any locality class, a payment method that is missing or
\* names neither pix nor a card is answered with a validation error and no
\* fee; a locality that is not known, asked with pix or a card, is not an error
C11_UnknownMethodIsError ==
    (IsFreightCall /\ call.city \notin BlankStrs) =>
        /\ call.payment_method \in BlankStrs \cup UnrecognisedMethods
              => IsFreightValidationError
        /\ (/\ call.city \in OtherCities
            /\ call.payment_method \in PixMethods \cup CardMethods)
              => result.kind = "text"

\* the rows of CustomerMemory of a phone
RowsOf(table, customer_phone) == {r \in table : r.customer_phone = customer_phone}

AtMostOneRowPerPhone ==
    \A r1, r2 \in CustomerMemory : r1.customer_phone = r2.customer_phone => r1 = r2

\* invocation p of save_customer_summary returned with the success payload
Saved(p) ==
    /\ procs[p].pc = "returned"
    /\ procs[p].tool = "save_customer_summary"
    /\ procs[p].result.kind = "structured"
    /\ procs[p].result.data.status = "success"

\* the step in which the store applies the write of invocation p
WriteApplied(p) == procs[p].pc = "query" /\ Saved(p)'

\* C12: the table never holds two rows of one phone, and a save that succeeds
\* leaves for its phone the one row with its text, updated_at the time of the
\* call and expires_at 15 days later, whatever an earlier call wrote, and
\* leaves the rows of the other phones as they were
C12_SaveReplaces ==
    [][/\ AtMostOneRowPerPhone'
       /\ \A p \in Procs :
             WriteApplied(p) =>
                LET me == procs[p]
                IN  /\ \E r \in CustomerMemory' :
                          /\ RowsOf(CustomerMemory', me.customer_phone) = {r}
                          /\ r.summary = me.summary
                          /\ r.updated_at = me.now_local
                          /\ r.expires_at.date = me.now_local.date + 15
                          /\ r.expires_at.time = me.now_local.time
                    /\ CustomerMemory' \ RowsOf(CustomerMemory', me.customer_phone)
                          = CustomerMemory \ RowsOf(CustomerMemory, me.customer_phone)
      ]_vars

\* C12 witness: two successive calls for one phone with different texts at
\* different times, both saved, while another phone has its row; the row of
\* the phone holds the second text and the second time
C12_Witness ==
    \E p, q \in Procs :
        /\ Saved(p) /\ Saved(q) /\ q \in procs[p].after
        /\ procs[p].customer_phone = procs[q].customer_phone
        /\ procs[p].summary # procs[q].summary
        /\ procs[p].now_local # procs[q].now_local
        /\ \E r \in CustomerMemory :
              /\ r.customer_phone = procs[p].customer_phone
              /\ r.summary = procs[p].summary
              /\ r.updated_at = procs[p].now_local
        /\ \E r \in CustomerMemory : r.customer_phone # procs[p].customer_phone

IsBlockCall == call.tool = "block_session"

IsNotFoundOutcome ==
    /\ result.kind = "text"
    /\ result.message.template = "Aviso: Não foi possível encontrar a sessão"

\* C13: block_session with an id that no session row has returns the
\* not-found sentence, not the success sentence, an error sentence or an
\* exception, and leaves the table as it was
C13_UnknownSessionNotFound ==
    [][(/\ call = Idle
        /\ IsBlockCall'
        /\ \A r \in AIAgentSession : r.id # call'.session_id)
          => /\ IsNotFoundOutcome'
             /\ AIAgentSession' = AIAgentSession
      ]_vars

IsNotifyCall == call.tool = "notify_human_support"

\* the invocation got as far as the notification and the notification did
\* not go out: no configuration, or the one request ended with an exception
\* or a status other than 200 and 201
SendFailed ==
    /\ ~(result.kind = "structured" /\ result.data.error = "incomplete_context")
    /\ \/ EVOLUTION_API_CONFIG = "missing"
       \/ \E i \in DOMAIN outbound :
             \/ "status" \notin DOMAIN outbound[i].answer
             \/ outbound[i].answer.status \notin {200, 201}

\* C14: when the notification does not go out, notify_human_support returns
\* a failure to its caller: no exception leaves it, it does not answer that
\* the notification was sent, and it has made at most one request
C14_SendFailureReported ==
    (IsNotifyCall /\ SendFailed) =>
        /\ result.kind # "exception"
        /\ result \notin {NotifiedText, NotifiedAndClosedText}
        /\ Len(outbound) <= 1

\* the call in progress is one that reaches the store
TouchesStore ==
    \/ IsValidateCall /\ DateParses(call.date_str)
    \/ IsBlockCall
    \/ call.tool = "get_active_holidays"
    \/ /\ IsNotifyCall /\ call.should_block_flow /\ SessionIdGiven(call.session_id)
       /\ ~(result.kind = "structured" /\ result.data.error = "incomplete_context")

\* a result that tells the caller the operation failed
IsFailurePayload(r) ==
    \/ /\ r.kind = "text"
       /\ r.message.template \in {"Erro ao validar", "Erro ao bloquear sessão", "Erro:"}
    \/ r.kind = "structured" /\ r.data.status = "error"

\* C15: no exception leaves a tool that reaches the store, and a call made
\* while the store is unreachable returns a failure payload
C15_StoreFailureIsPayload ==
    /\ result.kind # "exception"
    /\ \A p \in Procs : procs[p].pc = "returned" => procs[p].result.kind # "exception"
    /\ (TouchesStore /\ ~dbUp) => IsFailurePayload(result)
    /\ \A p \in Procs :
          (procs[p].pc = "returned" /\ ~Saved(p)) => IsFailurePayload(procs[p].result)

\* C16: the answer of a call for a date that is not a Sunday is the holiday
\* closure exactly when the Holiday table holds, as the call starts, an
\* active closure covering the date, whatever earlier calls for the date
\* were answered: a closure entered or switched on since closes the date,
\* one switched off or deleted since no longer does
C16_HolidaysReadLive ==
    [][(/\ call = Idle
        /\ IsValidateCall'
        /\ call'.date_str \in GoodDateStrs
        /\ ~IsSunday(ParseDate(call'.date_str)))
          => (HasReason("holiday")' <=>
                \E r \in Holiday :
                    /\ r.is_active
                    /\ r.start_date <= ParseDate(call'.date_str)
                    /\ ParseDate(call'.date_str) <= r.end_date)
      ]_vars

\* C16 witness: the agent had an answer other than the holiday closure for a
\* date, and a later call for the same date is answered with the closure
C16_Witness ==
    /\ IsValidateCall
    /\ answered.date_str = call.date_str
    /\ ~answered.holiday
    /\ HasReason("holiday")

\* the invocations whose write for the phone the store applied, in the order
\* of the writes
WritersOf(customer_phone) ==
    SelectSeq(applied, LAMBDA p : procs[p].customer_phone = customer_phone)

\* C17: however the calls for a phone overlap, the table holds for the phone
\* no row while no write was applied, and otherwise exactly one row whose
\* summary, updated_at and expires_at are those of the call whose write was
\* applied last, expires_at being 15 days after updated_at
C17_LastWriterWins ==
    \A ph \in Phones :
        LET writers == WritersOf(ph)
        IN  IF writers = << >> THEN RowsOf(CustomerMemory, ph) = {}
            ELSE LET last == procs[writers[Len(writers)]]
                 IN  \E r \in CustomerMemory :
                        /\ RowsOf(CustomerMemory, ph) = {r}
                        /\ r.summary = last.summary
                        /\ r.updated_at = last.now_local
                        /\ r.expires_at.date = last.now_local.date + 15
                        /\ r.expires_at.time = last.now_local.time

\* C17 witness: three calls for one phone in flight at once, two of them with
\* different texts read at different times; the call that read the clock
\* first has its write applied last, and the row holds its text and time
C17_Witness ==
    \E p, q \in Procs :
        /\ \A o \in Procs : Saved(o) /\ procs[o].after = {}
        /\ \A o \in Procs : procs[o].customer_phone = procs[p].customer_phone
        /\ procs[p].summary # procs[q].summary
        /\ procs[p].now_local # procs[q].now_local
        /\ DateTimeLE(procs[p].now_local, procs[q].now_local)
        /\ applied[Len(applied)] = p
        /\ \E r \in CustomerMemory :
              r.summary = procs[p].summary /\ r.updated_at = procs[p].now_local

\* the request being served names a registered tool and carries an input
\* object with keys that are not parameters of that tool
NamesToolWithExtraKeys(request) ==
    /\ "tool" \in DOMAIN request.data
    /\ request.data["tool"].v \in RegisteredTools
    /\ "input" \in DOMAIN request.data
    /\ IsDict(request.data["input"])
    /\ DOMAIN request.data["input"].items
           \ allowed_params(request.data["tool"].v) # {}

\* the declared parameters that the input object of the request carries
DeclaredInput(request) ==
    Restrict(request.data["input"].items,
             allowed_params(request.data["tool"].v))

\* the input object of the request has every parameter without a default
SuppliesRequired(request) ==
    ToolSignatures[request.data["tool"].v].required
        \subseteq DOMAIN request.data["input"].items

\* the arguments the running tool was invoked with are those of kw
InvokedWith(kw) ==
    CASE call.tool = "calculate_freight" ->
             /\ call.city = kw["city"].v
             /\ call.payment_method = kw["payment_method"].v
      [] call.tool = "validate_delivery_availability" ->
             /\ call.date_str = kw["date_str"].v
             /\ call.time_str = IF "time_str" \in DOMAIN kw
                                THEN kw["time_str"].v ELSE NoTime
      [] OTHER -> call = [tool |-> "get_active_holidays"]

NotBeforeReady(g) ==
    \/ g * 60 > ReadySeconds
    \/ g * 60 = ReadySeconds /\ clock.time.us = 0

\* the times on the :00/:30 grid, in minutes of the day, that the static
\* windows of day d closing after the clock plus one hour leave: from the later
\* of the window's open time and the clock plus one hour up to the close time
GridTimesLeft(d) ==
    {g \in {30 * k : k \in 0..47} :
        \E w \in StaticWindows(d) :
            /\ w[2] * 60 > ReadySeconds
            /\ w[1] <= g /\ NotBeforeReady(g) /\ g <= w[2]}

\* C19 as stated: for today without a time, suggested_slots holds exactly the
\* grid times from max(open, now + 1 hour) to close, close included, of every
\* static window that closes after now + 1 hour, in increasing order and
\* nothing else
C19_SlotsAreGridOfWindows ==
    TodayNoTimeAvailable =>
        LET slots == result.data.suggested_slots
        IN  /\ {MinutesOf(slots[i]) : i \in 1..Len(slots)} = GridTimesLeft(RequestedDate)
            /\ \A i \in 1..(Len(slots) - 1) :
                  MinutesOf(slots[i]) < MinutesOf(slots[i + 1])

\* the request is for today, an open day, without a time, and no static
\* window of today closes after the clock plus one hour
TodayNoWindowLeft ==
    /\ IsValidateCall /\ call.date_str \in GoodDateStrs
    /\ RequestedDate = clock.date /\ OpenDay(RequestedDate) /\ TimeAbsent
    /\ \A w \in StaticWindows(RequestedDate) : ~(w[2] * 60 > ReadySeconds)

\* the answer offers the next available day: by its date and hours, or as
\* tomorrow with an opening time that can be booked tomorrow
OffersNextAvailableDay ==
    \/ OffersNextOpenDay
    \/ /\ "tomorrow_at" \in DOMAIN result.message
       /\ Bookable(clock.date + 1, result.message.tomorrow_at)

\* C20 as stated: for today, an open day, without a time, when no static
\* window closes after now + 1 hour the answer is unavailable with reason
\* no_slots_left_today and offers the next available day, for every clock
\* value, those past the close of the last window included
C20_NoWindowLeftToday ==
    TodayNoWindowLeft =>
        /\ HasReason("no_slots_left_today")
        /\ OffersNextAvailableDay

\* the request names an open day and a well-formed time
OpenDayWithTime ==
    /\ IsValidateCall /\ call.date_str \in GoodDateStrs /\ OpenDay(RequestedDate)
    /\ call.time_str \in GoodTimeStrs

\* the requested time is earlier than the open of the first static window
BeforeFirstOpen ==
    \A w \in StaticWindows(RequestedDate) : MinutesOf(call.time_str) < w[1]

\* the requested time is later than the close of the last static window
AfterLastClose ==
    \A w \in StaticWindows(RequestedDate) : MinutesOf(call.time_str) > w[2]

\* C21 as stated: on an open day a well-formed time before the first window
\* is answered too_early and one after the last window after_hours, and both
\* answers offer the next business day
C21_EarlyAndLateReasons ==
    OpenDayWithTime =>
        /\ BeforeFirstOpen => (HasReason("too_early") /\ OffersNextOpenDay)
        /\ AfterLastClose => (HasReason("after_hours") /\ OffersNextOpenDay)

\* the dates the scan has passed or is at
ScanPassed == (scan.current_date + 1)..(scan.next_d - 1)

\* the scan is running or has returned, and what it has done so far is what
\* the code's loop does: every date it passed is closed, and the day it
\* returns is open, is the one validate_delivery_availability is given, and
\* was found with one lookup per date
ScanSound ==
    scan.pc # "idle" =>
        /\ \A d \in ScanPassed : ~OpenDay(d)
        /\ scan.pc = "returned" =>
              /\ scan.next_d > scan.current_date
              /\ ~IsSunday(scan.next_d) /\ ~Covered(scan.next_d)
              /\ scan.scanned = scan.next_d - scan.current_date
              /\ LET next == get_next_available(Holiday, scan.current_date)
                 IN  /\ next.date = scan.next_d
                     /\ next.day_name = scan.day_name
                     /\ next.hours = scan.hours
                     /\ next.scanned = scan.scanned

\* C22: the scan for the next available day returns (the calendar of the
\* model always has an open date after the starting one), it never returns a
\* Sunday or a date inside an active closure, and it goes on for as many
\* days as the closures last
C22_ScanTerminates ==
    /\ []ScanSound
    /\ (scan.pc = "scanning") ~> (scan.pc = "returned")

\* C22 witness: the scan returned after more than a week of closed days
C22_Witness ==
    /\ scan.pc = "returned"
    /\ scan.scanned > 8
    /\ \A d \in ScanPassed : IsSunday(d) \/ Covered(d)

\* the text of the reason of the running call, in lower case, contains one of
\* the keywords
ReasonHas(keys) ==
    \E kw \in keys : StrContains(StrLower(call.reason.chars), kw)

\* the tier the reason of the running call stands for
TierOfReason ==
    IF ReasonHas(SuccessTierKeys) THEN "U+1F7E2"
    ELSE IF ReasonHas(MediumTierKeys) THEN "U+1F7E1"
    ELSE "U+1F534"

\* C23: the priority tag of every notification that is sent is the tier of
\* its reason: the success tier for a checkout-completion keyword, else the
\* medium tier for a freight keyword, else the critical tier, whatever the
\* customer name, phone and context are
C23_TierFromReasonOnly ==
    (IsNotifyCall /\ outbound # << >>) =>
        \A i \in 1..Len(outbound) : outbound[i].text.emoji = TierOfReason

\* C23 witness: a reason with a freight keyword and a checkout keyword is sent
\* with the success tier, for a customer without name, phone and context
C23_Witness ==
    /\ IsNotifyCall /\ outbound # << >>
    /\ ReasonHas(SuccessTierKeys) /\ ReasonHas(MediumTierKeys)
    /\ call.customer_name = Str(<< >>) /\ call.customer_phone = Str(<< >>)
    /\ call.customer_context = NoneStr
    /\ outbound[1].text.emoji = "U+1F7E2"
    /\ outbound[1].text.nome = Desconhecido

\* the step is an invocation that blocks session sid: block_session, or
\* notify_human_support told to block and not stopped by an incomplete context
BlockingStep(sid) ==
    /\ call = Idle
    /\ \/ /\ call'.tool = "block_session"
          /\ call'.session_id = sid
       \/ /\ call'.tool = "notify_human_support"
          /\ call'.should_block_flow /\ SessionIdGiven(call'.session_id)
          /\ call'.session_id = sid
          /\ ~(result'.kind = "structured" /\ result'.data.status = "error")

\* the table with the row of sid blocked until the clock plus four days and
\* every other row as it is
WithBlocked(sid) ==
    {IF r.id = sid
     THEN [id |-> r.id, is_blocked |-> TRUE,
           expires_at |-> [date |-> clock.date + 4, time |-> clock.time]]
     ELSE r : r \in AIAgentSession}

\* C24: with the store reachable, blocking a session that exists sets
\* is_blocked and expires_at = now + 4 days on that row and leaves the other
\* rows as they are; no step of any tool removes a row or sets is_blocked back
\* to false, and no other step changes the table
C24_BlockedStaysBlocked ==
    [][/\ \A r \in AIAgentSession :
             \E q \in AIAgentSession' :
                 q.id = r.id /\ (r.is_blocked => q.is_blocked)
       /\ \A sid \in {r.id : r \in AIAgentSession} :
             (BlockingStep(sid) /\ dbUp) => AIAgentSession' = WithBlocked(sid)
       /\ (\A sid \in {r.id : r \in AIAgentSession} : ~BlockingStep(sid))
             => AIAgentSession' = AIAgentSession
      ]_vars

\* C24 witness: a session was blocked, the clock moved on, and a later
\* block_session for another session found the store unreachable: the first
\* session is still blocked, the other one is not
C24_Witness ==
    /\ IsBlockCall /\ ~dbUp
    /\ clock = Combine(FirstDate + 1, Time(8, 30, 0, 0))
    /\ \E r, q \in AIAgentSession :
          /\ r.is_blocked /\ r.id # call.session_id
          /\ r.expires_at = Combine(FirstDate + 4, Time(9, 0, 0, 0))
          /\ q.id = call.session_id /\ ~q.is_blocked

\* the connections in use: those the invocations hold
RECURSIVE ConnectionsHeld(_)
ConnectionsHeld(ts) ==
    IF ts = {} THEN 0
    ELSE LET t == CHOOSE x \in ts : TRUE
         IN  tasks[t].conns + ConnectionsHeld(ts \ {t})

ConnectionsInUse == ConnectionsHeld(DOMAIN tasks)

\* every invocation holds at most one connection, and none once it has
\* returned, whether it ended well, failed or raised
HoldsWhileQuerying ==
    \A t \in DOMAIN tasks :
        /\ tasks[t].conns <= 1
        /\ tasks[t].conns = 1 <=> tasks[t].pc = "holding"

\* a pool never has more than max_size of its connections in use, and its
\* count is that of the invocations holding one of its connections
PoolWithinMaximum ==
    \A j \in DOMAIN pools :
        /\ pools[j].in_use <= max_size
        /\ pools[j].in_use =
              Cardinality({t \in DOMAIN tasks :
                              tasks[t].pool = j /\ tasks[t].conns = 1})

\* C25 as stated: every connection an invocation acquires is released by the
\* time it returns, on every path; an invocation never holds more than one
\* connection; so the connections in use never exceed the pool maximum
C25_ConnectionsBounded ==
    /\ HoldsWhileQuerying
    /\ ConnectionsInUse <= max_size

\* C26 as stated: at most one pool is ever created, and every invocation
\* obtains that same pool
C26_SinglePool ==
    /\ Len(pools) <= 1
    /\ \A t, u \in DOMAIN tasks :
          (tasks[t].pool # 0 /\ tasks[u].pool # 0) => tasks[t].pool = tasks[u].pool

\* the grid times of day d, in minutes, that lie in a static window and are
\* not before the clock plus one hour
GridSlotsFromReady(d) ==
    {g \in {30 * k : k \in 0..47} :
        /\ NotBeforeReady(g)
        /\ \E w \in StaticWindows(d) : w[1] <= g /\ g <= w[2]}

\* C27 as stated: for today without a time, an available answer always has a
\* suggested slot, and when no grid slot from now + 1 hour to a close time is
\* left the answer is unavailable, for every clock value
C27_AvailableHasSlots ==
    (/\ IsValidateCall /\ call.date_str \in GoodDateStrs
     /\ RequestedDate = clock.date /\ OpenDay(RequestedDate) /\ TimeAbsent)
        => /\ IsAvailable => Len(result.data.suggested_slots) > 0
           /\ GridSlotsFromReady(RequestedDate) = {} => IsUnavailable

\* the answer is available and echoes the date and the time asked for
ConfirmsDateAndTime ==
    /\ IsValidateCall /\ IsAvailable
    /\ {"date", "time"} \subseteq DOMAIN result.data

\* the seconds from the midnight that starts today to the confirmed instant
ConfirmedSeconds ==
    (ParseDate(result.data.date) - clock.date) * 86400
        + MinutesOf(result.data.time) * 60

\* C28 as stated: an available answer that echoes a date and a time confirms
\* an instant at least one hour after the clock, whatever the requested date
\* (before today, today, after today) and the clock value
C28_ConfirmedAfterLeadTime ==
    ConfirmsDateAndTime =>
        \/ ConfirmedSeconds > ReadySeconds
        \/ ConfirmedSeconds = ReadySeconds /\ clock.time.us = 0

\* the time of day the refusal proposes lies inside a static window of today
ProposedInsideWindow ==
    \E w \in StaticWindows(clock.date) :
        /\ w[1] <= MinutesOf(result.data.minimum_ready_time)
        /\ MinutesOf(result.data.minimum_ready_time) <= w[2]

\* the same request with the proposed time as its time argument, made at the
\* same clock value, is answered available
ProposedIsAccepted ==
    \A holiday_info \in HolidayAnswers(Holiday, call.date_str) :
        LET again == ValidateResponse(call.date_str, result.data.minimum_ready_time,
                                      clock, Holiday, holiday_info, dbUp)
        IN  again.kind = "structured" /\ again.data.status = "available"

\* C29 as stated: the minimum_ready_time of an insufficient_production_time
\* answer lies inside one of today's static windows, and submitting it back as
\* the time at the same clock value is answered available
C29_ProposedTimeBookable ==
    (IsValidateCall /\ HasReason("insufficient_production_time")) =>
        ProposedInsideWindow /\ ProposedIsAccepted

\* the step is a call of notify_human_support
NotifyStep == call = Idle /\ call'.tool = "notify_human_support"

\* the reason of the call being made holds a finalization keyword
FinalizationReason ==
    \E k \in FinalizationKeys : StrContains(StrLower(OrEmpty(call'.reason)), k)

\* the required items the customer_context of the call being made does not hold
ItemsLacking ==
    {required[i] : i \in {j \in DOMAIN required :
        ~StrContains(StrLower(OrEmpty(call'.customer_context)), required[j])}}

\* the call being made is answered with the incomplete_context error
RejectedIncomplete ==
    /\ result'.kind = "structured"
    /\ result'.data.status = "error"
    /\ result'.data.error = "incomplete_context"

\* C30: a notify_human_support call with a finalization reason and a context
\* lacking a required item returns incomplete_context listing the items
\* lacking, makes no outbound request and leaves every session row as it is,
\* whatever should_block_flow and session_id are; every other call makes its
\* send attempt, and changes a session row only when should_block_flow is true
\* and a session_id is given
C30_IncompleteContextStopsCall ==
    [][NotifyStep =>
          IF FinalizationReason /\ ItemsLacking # {}
          THEN /\ RejectedIncomplete
               /\ {result'.data.missing[i] : i \in DOMAIN result'.data.missing}
                      = ItemsLacking
               /\ outbound' = << >>
               /\ AIAgentSession' = AIAgentSession
          ELSE /\ ~RejectedIncomplete
               /\ EVOLUTION_API_CONFIG = "set" => Len(outbound') = 1
               /\ AIAgentSession' # AIAgentSession
                     => call'.should_block_flow /\ SessionIdGiven(call'.session_id)
      ]_vars

\* C30 witness: a finalization call with a context that holds two of the four
\* items, should_block_flow true and the id of an existing unblocked session,
\* with the messaging service configured: rejected, nothing sent, the session
\* still unblocked
C30_Witness ==
    /\ IsNotifyCall
    /\ result.kind = "structured" /\ result.data.status = "error"
    /\ result.data.error = "incomplete_context"
    /\ Len(result.data.missing) = 2
    /\ call.should_block_flow
    /\ EVOLUTION_API_CONFIG = "set"
    /\ outbound = << >>
    /\ \E r \in AIAgentSession : r.id = call.session_id /\ ~r.is_blocked
====
